---- MODULE Spec2Model ----
(***************************************************************************)
(* A model of errorck (src/main.cpp): the driver main(), the notable-     *)
(* functions loader, the SQLite writer and the per-translation-unit       *)
(* classifier ErrorCheckVisitor.                                           *)
(*                                                                         *)
(* An AST node is a record [k, n, c]: k is the Clang node class, n a name  *)
(* (declaration referred to, operator, cast target type) and c the         *)
(* sequence of children.  A node is addressed by its path from the body    *)
(* of the analysed function (the sequence of child indices); the parent    *)
(* query ctx.getParents(node)[0] is the path without its last index.       *)
(***************************************************************************)
EXTENDS Integers, Sequences, FiniteSets, TLC

VARIABLES
    pc,                 \* position of main(): "start", "loaded", "opened", "done"
    cfg,                \* name of the notable-functions file given on the command line
    overwrite,          \* --overwrite-if-needed
    fs,                 \* what is at the database path: "absent", "file", "dir"
    prog,               \* the source text of the analysed function (a descriptor)
    shared,             \* TRUE when the function lives in a header every unit includes
    units,              \* number of translation units of the run
    notable_functions,  \* name -> ErrorReportingType, as a set of <<name, type>>
    handler_functions,  \* names registered with type "handler"
    logger_functions,   \* names registered with type "logger"
    rows,               \* the rows of watched_calls, in id order
    error_message,      \* SqliteWriter::error_message_ ("" when ok)
    tu,                 \* index of the translation unit being traversed (0: none yet)
    ast,                \* the AST of that unit's function body
    pos,                \* number of call expressions of that unit already visited
    result,             \* what Tool.run will return (0, or 1 after a frontend error)
    exit_code,          \* exit code of the process (-1 while running)
    runs                \* which run of the engine on these inputs this is (from 1)

vars == <<pc, cfg, overwrite, fs, prog, shared, units, notable_functions,
          handler_functions, logger_functions, rows, error_message, tu, ast,
          pos, result, exit_code, runs>>

(***************************************************************************)
(* Bounds of the model.                                                    *)
(***************************************************************************)
MaxWrap == 1       \* wrapper expressions stacked directly on the watched call
MaxUnits == 2      \* translation units of one run
MaxPad == 1        \* unrelated statements between an assignment and the use
MaxRuns == 2       \* runs of the engine on the same inputs and database path

(***************************************************************************)
(* AST nodes.                                                              *)
(***************************************************************************)
Node(k, n, c) == [k |-> k, n |-> n, c |-> c]

ExprKinds == {"CallExpr", "DeclRefExpr", "ParenExpr", "ImplicitCastExpr",
              "CStyleCastExpr", "BinaryOperator", "UnaryOperator",
              "IntegerLiteral"}

StmtOnlyKinds == {"CompoundStmt", "IfStmt", "SwitchStmt", "CaseStmt",
                  "DefaultStmt", "LabelStmt", "AttributedStmt", "WhileStmt",
                  "DoStmt", "ForStmt", "ReturnStmt", "DeclStmt", "NullStmt"}

\* In Clang every Expr is a Stmt.
IsExprKind(k) == k \in ExprKinds
IsStmtKind(k) == k \in ExprKinds \cup StmtOnlyKinds
IsDeclKind(k) == k \in {"VarDecl", "FunctionDecl", "TranslationUnitDecl"}

\* The declarations of the analysed code, by name.
FunctionNames == {"malloc", "strtoull", "g", "handle", "log_error",
                  "__errno_location", "xmalloc", "ymalloc"}
LocalVarNames == {"x", "y", "c", "fp"}
GlobalVarNames == {"errno", "gv"}

IsVarDeclName(n) == n \in LocalVarNames \cup GlobalVarNames
hasLocalStorage(n) == n \in LocalVarNames

\* A null pointer, where the code returns or holds nullptr for a node.
NullPath == <<0>>

RECURSIVE NodeAt(_, _)
NodeAt(t, p) == IF p = <<>> THEN t ELSE NodeAt(t.c[Head(p)], Tail(p))

KindAt(t, p) == NodeAt(t, p).k

Parent(p) == SubSeq(p, 1, Len(p) - 1)

\* Kind of ctx.getParents(node)[0]; the body of the function hangs under its
\* FunctionDecl.
ParentKind(t, p) == IF p = <<>> THEN "FunctionDecl" ELSE KindAt(t, Parent(p))

IsPrefix(s, p) == Len(s) <= Len(p) /\ SubSeq(p, 1, Len(s)) = s

\* Paths of the subtree under p in the order RecursiveASTVisitor visits them
\* (pre-order; an absent child is a null pointer and is not visited).
RECURSIVE PreOrderFrom(_, _)
RECURSIVE PreOrderKids(_, _, _)
\* A traversal that visits a node after its children.
PostOrderFrom(n, p) ==
    IF n.k = "Absent" THEN <<>> ELSE PreOrderKids(n, p, 1) \o <<p>>

PreOrderFrom(n, p) ==
    IF n.k = "Absent" THEN <<>> ELSE <<p>> \o PreOrderKids(n, p, 1)
PreOrderKids(n, p, i) ==
    IF i > Len(n.c) THEN <<>>
    ELSE PreOrderFrom(n.c[i], p \o <<i>>) \o PreOrderKids(n, p, i + 1)

PreOrder(t, p) == PreOrderFrom(NodeAt(t, p), p)

\* The elements of a sequence.
Range(seq) == {seq[i] : i \in 1..Len(seq)}

SubtreePaths(t, p) == Range(PreOrder(t, p))

RECURSIVE IgnoreParenImpCasts(_, _)
IgnoreParenImpCasts(t, p) ==
    IF KindAt(t, p) \in {"ParenExpr", "ImplicitCastExpr"}
    THEN IgnoreParenImpCasts(t, p \o <<1>>)
    ELSE p

\* CallExpr::getCalleeDecl(): the declaration the callee expression names.
CalleeDecl(t, p) ==
    LET q == IgnoreParenImpCasts(t, p \o <<1>>)
    IN IF KindAt(t, q) = "DeclRefExpr" THEN NodeAt(t, q).n ELSE ""

\* CallExpr::getDirectCallee(): the callee when it is a declared function.
DirectCallee(t, p) ==
    IF CalleeDecl(t, p) \in FunctionNames THEN CalleeDecl(t, p) ELSE ""

(***************************************************************************)
(* The reference visitors (src/main.cpp:337-487).                          *)
(***************************************************************************)
\* VarReferenceVisitor: some DeclRefExpr under s refers to var.
ContainsVarReference(t, s, var) ==
    /\ s # NullPath
    /\ var # ""
    /\ \E q \in SubtreePaths(t, s) :
          KindAt(t, q) = "DeclRefExpr" /\ NodeAt(t, q).n = var

\* CallReferenceVisitor: the call expression `call` is a node under s.
ContainsCallReference(t, s, call) ==
    /\ s # NullPath
    /\ call # NullPath
    /\ \E q \in SubtreePaths(t, s) : KindAt(t, q) = "CallExpr" /\ q = call

\* ReturnStmt::getRetValue()
RetValue(t, r) == IF Len(NodeAt(t, r).c) >= 1 THEN r \o <<1>> ELSE NullPath

\* ReturnVarVisitor: some return statement under s returns a value that
\* contains var.
ContainsReturnOfVar(t, s, var) ==
    /\ s # NullPath
    /\ var # ""
    /\ \E q \in SubtreePaths(t, s) :
          /\ KindAt(t, q) = "ReturnStmt"
          /\ ContainsVarReference(t, RetValue(t, q), var)

IsExplicitVoidCastExpr(t, e) ==
    /\ e # NullPath
    /\ LET q == IgnoreParenImpCasts(t, e)
       IN KindAt(t, q) = "CStyleCastExpr" /\ NodeAt(t, q).n = "void"

IsCallInSet(t, e, names) ==
    /\ e # NullPath
    /\ DirectCallee(t, e) # ""
    /\ DirectCallee(t, e) \in names

IsHandlerCall(t, e) == IsCallInSet(t, e, handler_functions)

IsLoggerCall(t, e) == IsCallInSet(t, e, logger_functions)

IsErrnoAccessorName(name) == name \in {"__errno_location", "__error"}

AsLocalVar(t, e) ==
    IF e = NullPath THEN ""
    ELSE LET q == IgnoreParenImpCasts(t, e)
         IN IF KindAt(t, q) = "DeclRefExpr" /\ hasLocalStorage(NodeAt(t, q).n)
            THEN NodeAt(t, q).n
            ELSE ""

DirectVarReference(t, e, var) ==
    IF e = NullPath \/ var = "" THEN NullPath
    ELSE LET q == IgnoreParenImpCasts(t, e)
         IN IF KindAt(t, q) = "DeclRefExpr" /\ NodeAt(t, q).n = var
            THEN q
            ELSE NullPath

(***************************************************************************)
(* VarUsageVisitor (src/main.cpp:495-585).  The result is the set of       *)
(* contexts ("kHandler", "kLogger", "kOther") in which Mark() ran; ctx is  *)
(* the top of the context stack.                                           *)
(***************************************************************************)
RECURSIVE VarUsageVisit(_, _, _, _)
\* A visitor for which the arguments of an unregistered call are in no
\* context.
VarUsageVisitOpaque(t, p, var, ctx) ==
    LET n == NodeAt(t, p)
        kids == {i \in 1..Len(n.c) : n.c[i].k # "Absent"}
    IN IF n.k = "CallExpr"
       THEN LET arg_ctx == IF IsCallInSet(t, p, handler_functions) THEN "kHandler"
                           ELSE IF IsCallInSet(t, p, logger_functions) THEN "kLogger"
                           ELSE "kOther"
            IN (IF IsErrnoAccessorName(DirectCallee(t, p)) THEN {ctx} ELSE {})
               \cup VarUsageVisit(t, p \o <<1>>, var, ctx)
               \cup UNION {VarUsageVisit(t, p \o <<i>>, var, arg_ctx) : i \in kids \ {1}}
       ELSE (IF n.k = "DeclRefExpr" /\ n.n = var THEN {ctx} ELSE {})
            \cup UNION {VarUsageVisit(t, p \o <<i>>, var, ctx) : i \in kids}

VarUsageVisit(t, p, var, ctx) ==
    LET n == NodeAt(t, p)
        kids == {i \in 1..Len(n.c) : n.c[i].k # "Absent"}
    IN IF n.k = "CallExpr"
       THEN LET arg_ctx == IF IsCallInSet(t, p, handler_functions) THEN "kHandler"
                           ELSE IF IsCallInSet(t, p, logger_functions) THEN "kLogger"
                           ELSE ctx
            IN (IF IsErrnoAccessorName(DirectCallee(t, p)) THEN {ctx} ELSE {})
               \cup VarUsageVisit(t, p \o <<1>>, var, ctx)
               \cup UNION {VarUsageVisit(t, p \o <<i>>, var, arg_ctx) : i \in kids \ {1}}
       ELSE (IF n.k = "DeclRefExpr" /\ n.n = var THEN {ctx} ELSE {})
            \cup UNION {VarUsageVisit(t, p \o <<i>>, var, ctx) : i \in kids}

AnalyzeVarUsage(t, s, var) ==
    LET marks == IF s = NullPath \/ var = "" THEN {}
                 ELSE VarUsageVisit(t, s, var, "kOther")
    IN [handler |-> "kHandler" \in marks,
        logger |-> "kLogger" \in marks,
        other |-> "kOther" \in marks]

(***************************************************************************)
(* ErrorCheckVisitor: position queries (src/main.cpp:940-1145).            *)
(***************************************************************************)
RECURSIVE TopLevelExpr(_, _)
TopLevelExpr(t, e) ==
    IF IsExprKind(ParentKind(t, e)) THEN TopLevelExpr(t, Parent(e)) ELSE e

IsTopLevelExplicitVoidCast(t, e) ==
    IsExplicitVoidCastExpr(t, TopLevelExpr(t, e))

RECURSIVE IsReturnedFrom(_, _, _)
IsReturnedFrom(t, call, current) ==
    LET pk == ParentKind(t, current)
    IN IF IsExprKind(pk) THEN IsReturnedFrom(t, call, Parent(current))
       ELSE IF IsStmtKind(pk)
       THEN /\ pk = "ReturnStmt"
            /\ ContainsCallReference(t, RetValue(t, Parent(current)), call)
       ELSE FALSE

\* An IsReturnedCall that looks at the parent of the call only.
IsReturnedDirectly(t, call) == ParentKind(t, call) = "ReturnStmt"

IsReturnedCall(t, call) == IsReturnedFrom(t, call, call)

IsExplicitVoidCastStatement(t, s, var) ==
    /\ s # NullPath
    /\ var # ""
    /\ IsExprKind(KindAt(t, s))
    /\ IsExplicitVoidCastExpr(t, s)
    /\ ContainsVarReference(t, s, var)

WrapperKinds == {"ParenExpr", "ImplicitCastExpr", "CStyleCastExpr"}

RECURSIVE IsIgnoredFrom(_, _)
IsIgnoredFrom(t, Current) ==
    LET pk == ParentKind(t, Current)
        i == Current[Len(Current)]
    IN IF ~IsStmtKind(pk) THEN FALSE
       ELSE IF IsExprKind(pk)
       THEN IF pk \in WrapperKinds THEN IsIgnoredFrom(t, Parent(Current)) ELSE FALSE
       ELSE IF pk = "CompoundStmt" THEN TRUE
       ELSE IF pk = "IfStmt" THEN i = 2 \/ i = 3
       ELSE IF pk = "WhileStmt" THEN i = 2
       ELSE IF pk = "DoStmt" THEN i = 1
       ELSE IF pk = "ForStmt" THEN i = 1 \/ i = 3 \/ i = 4
       ELSE IF pk = "SwitchStmt" THEN i = 2
       ELSE IF pk = "CaseStmt" THEN i = 2
       ELSE IF pk = "DefaultStmt" THEN i = 1
       ELSE IF pk = "LabelStmt" THEN i = 1
       ELSE IF pk = "AttributedStmt" THEN i = 1
       ELSE FALSE

\* An IsIgnoredCallStatement that accepts every statement as parent,
\* whichever child of it the call is.
IsChildOfStatement(t, call) ==
    call # NullPath /\ ParentKind(t, call) \in StmtOnlyKinds

IsIgnoredCallStatement(t, call) ==
    IF call = NullPath THEN FALSE ELSE IsIgnoredFrom(t, call)

\* The statement of the nearest enclosing compound block that holds s; the walk
\* passes through statements and through variable declarations alike.
RECURSIVE FindStatementInCompound(_, _)
FindStatementInCompound(t, s) ==
    IF s = NullPath \/ s = <<>> THEN NullPath
    ELSE IF IsStmtKind(KindAt(t, s)) /\ ParentKind(t, s) = "CompoundStmt" THEN s
    ELSE FindStatementInCompound(t, Parent(s))

NextStatementInCompound(t, s) ==
    IF s = NullPath \/ s = <<>> THEN NullPath
    ELSE IF ParentKind(t, s) # "CompoundStmt" THEN NullPath
    ELSE IF s[Len(s)] < Len(NodeAt(t, Parent(s)).c)
    THEN Parent(s) \o <<s[Len(s)] + 1>>
    ELSE NullPath

(***************************************************************************)
(* Branch constructs (src/main.cpp:1464-1563).                             *)
(***************************************************************************)
BranchHandlingType(has_catchall) ==
    IF has_catchall THEN "kBranchedWithCatchall" ELSE "kBranchedNoCatchall"

\* IfStmt::getElse()
ElseOf(t, s) == IF Len(NodeAt(t, s).c) >= 3 THEN s \o <<3>> ELSE NullPath

\* An IfHasCatchall that stops at the first else.
IfHasElse(t, current) == ElseOf(t, current) # NullPath

RECURSIVE IfHasCatchall(_, _)
IfHasCatchall(t, current) ==
    LET else_stmt == ElseOf(t, current)
    IN IF else_stmt = NullPath THEN FALSE
       ELSE IF KindAt(t, else_stmt) = "IfStmt" THEN IfHasCatchall(t, else_stmt)
       ELSE TRUE

\* SwitchStmt::getSwitchCaseList(): the case and default labels that belong
\* to this switch, which are those of its body outside any nested switch.
RECURSIVE SwitchCaseList(_, _)
SwitchCaseList(t, p) ==
    LET n == NodeAt(t, p)
    IN IF n.k = "SwitchStmt" THEN {}
       ELSE (IF n.k \in {"CaseStmt", "DefaultStmt"} THEN {p} ELSE {})
            \cup UNION {SwitchCaseList(t, p \o <<i>>) : i \in 1..Len(n.c)}

SwitchHasDefault(t, s) ==
    /\ s # NullPath
    /\ \E q \in SwitchCaseList(t, s \o <<2>>) : KindAt(t, q) = "DefaultStmt"

\* The three BranchHandlingFor* return std::optional<HandlingType>; "kNone"
\* stands for std::nullopt.
BranchHandlingForCall(t, call) ==
    LET statement == FindStatementInCompound(t, call)
    IN IF statement = NullPath THEN "kNone"
       ELSE IF /\ KindAt(t, statement) = "IfStmt"
               /\ ContainsCallReference(t, statement \o <<1>>, call)
       THEN BranchHandlingType(IfHasCatchall(t, statement))
       ELSE IF /\ KindAt(t, statement) = "SwitchStmt"
               /\ ContainsCallReference(t, statement \o <<1>>, call)
       THEN BranchHandlingType(SwitchHasDefault(t, statement))
       ELSE "kNone"

BranchHandlingForVarCondition(t, s, var) ==
    IF s = NullPath \/ var = "" THEN "kNone"
    ELSE IF /\ KindAt(t, s) = "IfStmt"
            /\ ContainsVarReference(t, s \o <<1>>, var)
    THEN BranchHandlingType(IfHasCatchall(t, s))
    ELSE IF /\ KindAt(t, s) = "SwitchStmt"
            /\ ContainsVarReference(t, s \o <<1>>, var)
    THEN BranchHandlingType(SwitchHasDefault(t, s))
    ELSE "kNone"

(***************************************************************************)
(* Direct handler / logger use (src/main.cpp:1407-1432, 1565-1579).        *)
(***************************************************************************)
\* Arguments of a call: its children after the callee expression.
ArgumentPaths(t, e) == {e \o <<i>> : i \in 2..Len(NodeAt(t, e).c)}

RECURSIVE FindEnclosingFrom(_, _, _)
FindEnclosingFrom(t, call, current) ==
    IF current = <<>> THEN NullPath
    ELSE LET parent == Parent(current)
         IN IF /\ KindAt(t, parent) = "CallExpr"
               /\ \E arg \in ArgumentPaths(t, parent) :
                     ContainsCallReference(t, arg, call)
            THEN parent
            ELSE IF IsStmtKind(KindAt(t, parent))
            THEN FindEnclosingFrom(t, call, parent)
            ELSE NullPath

FindEnclosingCallWithArgument(t, call) == FindEnclosingFrom(t, call, call)

DirectHandlerLoggerUse(t, call) ==
    LET enclosing == FindEnclosingCallWithArgument(t, call)
    IN IF enclosing = NullPath THEN "kNone"
       ELSE IF IsHandlerCall(t, enclosing) THEN "kPassedToHandlerFn"
       ELSE IF IsLoggerCall(t, enclosing) THEN "kLoggedNotHandled"
       ELSE "kNone"

(***************************************************************************)
(* The local-propagation tracker (src/main.cpp:1696-1910).                 *)
(***************************************************************************)
\* VarDecl::getInit()
InitOf(t, d) == IF Len(NodeAt(t, d).c) >= 1 THEN d \o <<1>> ELSE NullPath

StatementUse(use, var, loc) == [use |-> use, var |-> var, loc |-> loc]

UsageUse(usage) ==
    IF usage.handler THEN "kPassedToHandlerFn"
    ELSE IF usage.other THEN "kUsedOther"
    ELSE IF usage.logger THEN "kLogged"
    ELSE "kUsedOther"

\* The loop over the declarations of a DeclStmt, from declaration i on, with
\* the candidate found so far.  "fallthrough" is the end of the loop without a
\* candidate.
RECURSIVE DeclStmtUse(_, _, _, _, _, _)
DeclStmtUse(t, s, var, i, candidate, candidate_loc) ==
    IF i > Len(NodeAt(t, s).c)
    THEN IF candidate # ""
         THEN StatementUse("kPropagatedValue", candidate, candidate_loc)
         ELSE StatementUse("fallthrough", "", NullPath)
    ELSE LET d == s \o <<i>>
             init == InitOf(t, d)
             direct == DirectVarReference(t, init, var)
         IN IF init = NullPath \/ ~ContainsVarReference(t, init, var)
            THEN DeclStmtUse(t, s, var, i + 1, candidate, candidate_loc)
            ELSE IF direct # NullPath /\ hasLocalStorage(NodeAt(t, d).n)
            THEN IF candidate # "" /\ candidate # NodeAt(t, d).n
                 THEN StatementUse("kUsedOther", "", NullPath)
                 ELSE DeclStmtUse(t, s, var, i + 1, NodeAt(t, d).n, direct)
            ELSE StatementUse(UsageUse(AnalyzeVarUsage(t, init, var)), "", NullPath)

\* The BinaryOperator part of AnalyzeStatementForVar.
AssignStmtUse(t, s, var) ==
    IF KindAt(t, s) = "BinaryOperator" /\ NodeAt(t, s).n = "="
    THEN LET lhs_var == AsLocalVar(t, s \o <<1>>)
             rhs == s \o <<2>>
             rhs_contains == ContainsVarReference(t, rhs, var)
             direct == DirectVarReference(t, rhs, var)
         IN IF lhs_var = var /\ ~rhs_contains
            THEN StatementUse("kKilled", "", NullPath)
            ELSE IF rhs_contains
            THEN IF direct # NullPath /\ lhs_var # "" /\ lhs_var # var
                 THEN StatementUse("kPropagatedValue", lhs_var, direct)
                 ELSE StatementUse(UsageUse(AnalyzeVarUsage(t, rhs, var)), "", NullPath)
            ELSE StatementUse("fallthrough", "", NullPath)
    ELSE StatementUse("fallthrough", "", NullPath)

\* An AnalyzeStatementForVar that accepts a cast to void whatever the flag.
StatementForVarUseCast(t, s, var, allow_cast_to_void, usage, branched, decl, assign) ==
    IF usage.handler THEN StatementUse("kPassedToHandlerFn", "", NullPath)
    ELSE IF ContainsReturnOfVar(t, s, var)
    THEN StatementUse("kReturned", "", NullPath)
    ELSE IF branched # "kNone" THEN StatementUse(branched, "", NullPath)
    ELSE IF decl.use # "fallthrough" THEN decl
    ELSE IF assign.use # "fallthrough" THEN assign
    ELSE IF IsExplicitVoidCastStatement(t, s, var)
    THEN StatementUse("kCastToVoid", "", NullPath)
    ELSE IF usage.other THEN StatementUse("kUsedOther", "", NullPath)
    ELSE IF usage.logger THEN StatementUse("kLogged", "", NullPath)
    ELSE StatementUse("kNone", "", NullPath)

\* The body of AnalyzeStatementForVar once `usage`, the branch handling of the
\* statement and the outcomes of its DeclStmt and BinaryOperator parts are known.
StatementForVarUse(t, s, var, allow_cast_to_void, usage, branched, decl, assign) ==
    IF usage.handler THEN StatementUse("kPassedToHandlerFn", "", NullPath)
    ELSE IF ContainsReturnOfVar(t, s, var)
    THEN StatementUse("kReturned", "", NullPath)
    ELSE IF branched # "kNone" THEN StatementUse(branched, "", NullPath)
    ELSE IF decl.use # "fallthrough" THEN decl
    ELSE IF assign.use # "fallthrough" THEN assign
    ELSE IF IsExplicitVoidCastStatement(t, s, var)
    THEN StatementUse(IF allow_cast_to_void THEN "kCastToVoid" ELSE "kUsedOther",
                      "", NullPath)
    ELSE IF usage.other THEN StatementUse("kUsedOther", "", NullPath)
    ELSE IF usage.logger THEN StatementUse("kLogged", "", NullPath)
    ELSE StatementUse("kNone", "", NullPath)

AnalyzeStatementForVar(t, s, var, allow_cast_to_void) ==
    IF s = NullPath \/ var = "" THEN StatementUse("kNone", "", NullPath)
    ELSE StatementForVarUse(t, s, var, allow_cast_to_void,
                            AnalyzeVarUsage(t, s, var),
                            BranchHandlingForVarCondition(t, s, var),
                            IF KindAt(t, s) = "DeclStmt"
                            THEN DeclStmtUse(t, s, var, 1, "", NullPath)
                            ELSE StatementUse("fallthrough", "", NullPath),
                            AssignStmtUse(t, s, var))

\* TrackingResult; assigned_loc is NullPath for std::nullopt.
TrackingResult(type, loc) == [type |-> type, assigned_loc |-> loc]

NoTracking == TrackingResult("kNone", NullPath)

\* The loop of TrackAssignedValue over the statements of the compound block,
\* from statement i on (the statement after the assignment at first).
\* TrackStep is the switch on the use `u` of statement i.
RECURSIVE TrackLoop(_, _, _, _, _, _, _)
RECURSIVE TrackStep(_, _, _, _, _, _, _, _)
\* A tracker that follows a copy but keeps the site it had.
TrackStepKeepSite(t, compound, i, current_var, current_loc, logged, allow_cast_to_void, u) ==
    IF u.use = "kNone"
    THEN TrackLoop(t, compound, i + 1, current_var, current_loc, logged,
                   allow_cast_to_void)
    ELSE IF u.use = "kLogged"
    THEN TrackLoop(t, compound, i + 1, current_var, current_loc, TRUE,
                   allow_cast_to_void)
    ELSE IF u.use = "kPropagatedValue"
    THEN TrackLoop(t, compound, i + 1, u.var, current_loc, logged,
                   allow_cast_to_void)
    ELSE IF u.use = "kKilled"
    THEN IF logged THEN TrackingResult("kLoggedNotHandled", NullPath)
         ELSE TrackingResult("kAssignedNotRead", current_loc)
    ELSE IF u.use = "kReturned" THEN TrackingResult("kPropagated", NullPath)
    ELSE TrackingResult(u.use, NullPath)

\* A tracker whose walk ends at the first logger use.
TrackStepLoggerStops(t, compound, i, current_var, current_loc, logged, allow_cast_to_void, u) ==
    IF u.use = "kNone"
    THEN TrackLoop(t, compound, i + 1, current_var, current_loc, logged,
                   allow_cast_to_void)
    ELSE IF u.use = "kLogged"
    THEN TrackingResult("kLoggedNotHandled", NullPath)
    ELSE IF u.use = "kPropagatedValue"
    THEN TrackLoop(t, compound, i + 1, u.var, u.loc, logged, allow_cast_to_void)
    ELSE IF u.use = "kKilled"
    THEN TrackingResult("kAssignedNotRead", current_loc)
    ELSE IF u.use = "kReturned" THEN TrackingResult("kPropagated", NullPath)
    ELSE TrackingResult(u.use, NullPath)

TrackLoop(t, compound, i, current_var, current_loc, logged, allow_cast_to_void) ==
    IF i > Len(NodeAt(t, compound).c)
    THEN IF logged THEN TrackingResult("kLoggedNotHandled", NullPath)
         ELSE TrackingResult("kAssignedNotRead", current_loc)
    ELSE TrackStep(t, compound, i, current_var, current_loc, logged,
                   allow_cast_to_void,
                   AnalyzeStatementForVar(t, compound \o <<i>>, current_var,
                                          allow_cast_to_void))

TrackStep(t, compound, i, current_var, current_loc, logged, allow_cast_to_void, u) ==
    IF u.use = "kNone"
    THEN TrackLoop(t, compound, i + 1, current_var, current_loc, logged,
                   allow_cast_to_void)
    ELSE IF u.use = "kLogged"
    THEN TrackLoop(t, compound, i + 1, current_var, current_loc, TRUE,
                   allow_cast_to_void)
    ELSE IF u.use = "kPropagatedValue"
    THEN TrackLoop(t, compound, i + 1, u.var, u.loc, logged, allow_cast_to_void)
    ELSE IF u.use = "kKilled"
    THEN IF logged THEN TrackingResult("kLoggedNotHandled", NullPath)
         ELSE TrackingResult("kAssignedNotRead", current_loc)
    ELSE IF u.use = "kReturned" THEN TrackingResult("kPropagated", NullPath)
    ELSE TrackingResult(u.use, NullPath)

\* A tracker that walks its block from the first statement.
TrackAssignedValueWhole(t, statement, var, assigned_loc, allow_cast_to_void) ==
    IF statement = NullPath \/ var = "" THEN NoTracking
    ELSE IF ParentKind(t, statement) # "CompoundStmt" THEN NoTracking
    ELSE TrackLoop(t, Parent(statement), 1, var, assigned_loc, FALSE,
                   allow_cast_to_void)

TrackAssignedValue(t, statement, var, assigned_loc, allow_cast_to_void) ==
    IF statement = NullPath \/ var = "" THEN NoTracking
    ELSE IF ParentKind(t, statement) # "CompoundStmt" THEN NoTracking
    ELSE TrackLoop(t, Parent(statement), statement[Len(statement)] + 1, var,
                   assigned_loc, FALSE, allow_cast_to_void)

(***************************************************************************)
(* Return-value classifier (src/main.cpp:1232-1311, 1617-1653).            *)
(***************************************************************************)
Assignment(ok, var, stmt) == [ok |-> ok, var |-> var, stmt |-> stmt]

NoAssignment == Assignment(FALSE, "", NullPath)

\* The loop of FindReturnValueAssignment, with `current` the node reached.
\* parents[0].get<clang::Expr>() is tried first, then get<clang::Decl>(), then
\* get<clang::Stmt>().
RECURSIVE FindAssignmentFrom(_, _, _)
FindAssignmentFrom(t, call_expr, current) ==
    LET pk == ParentKind(t, current)
        parent == Parent(current)
    IN IF IsExprKind(pk) THEN FindAssignmentFrom(t, call_expr, parent)
       ELSE IF IsDeclKind(pk)
       THEN IF pk # "VarDecl" \/ ~hasLocalStorage(NodeAt(t, parent).n)
            THEN NoAssignment
            ELSE IF InitOf(t, parent) = NullPath THEN NoAssignment
            ELSE IF IgnoreParenImpCasts(t, InitOf(t, parent))
                      # IgnoreParenImpCasts(t, current)
            THEN NoAssignment
            ELSE LET out_stmt == FindStatementInCompound(t, call_expr)
                 IN IF out_stmt = NullPath \/ KindAt(t, out_stmt) # "DeclStmt"
                    THEN NoAssignment
                    ELSE Assignment(TRUE, NodeAt(t, parent).n, out_stmt)
       ELSE IF IsStmtKind(pk)
       THEN IF pk # "BinaryOperator" \/ NodeAt(t, parent).n # "="
            THEN NoAssignment
            ELSE IF IgnoreParenImpCasts(t, parent \o <<2>>)
                      # IgnoreParenImpCasts(t, current)
            THEN NoAssignment
            ELSE LET lhs_var == AsLocalVar(t, parent \o <<1>>)
                     out_stmt == FindStatementInCompound(t, parent)
                 IN IF lhs_var = "" THEN NoAssignment
                    ELSE IF out_stmt = NullPath
                            \/ KindAt(t, out_stmt) # "BinaryOperator"
                    THEN NoAssignment
                    ELSE Assignment(TRUE, lhs_var, out_stmt)
       ELSE NoAssignment

FindReturnValueAssignment(t, call_expr) ==
    FindAssignmentFrom(t, call_expr, call_expr)

\* TrackReturnValue once the assignment `a` is known.
TrackAssignment(t, call_expr, a) ==
    IF ~a.ok THEN NoTracking
    ELSE TrackAssignedValue(t, a.stmt, a.var, call_expr, TRUE)

TrackReturnValue(t, call_expr) ==
    TrackAssignment(t, call_expr, FindReturnValueAssignment(t, call_expr))

\* HandlingResult; assigned is NullPath for std::nullopt, otherwise the node
\* whose location is reported.
HandlingResult(type, assigned) == [type |-> type, assigned |-> assigned]

MakeResult(type) == HandlingResult(type, NullPath)

ToHandlingResult(tracked) ==
    IF tracked.type = "kAssignedNotRead" /\ tracked.assigned_loc # NullPath
    THEN HandlingResult(tracked.type, tracked.assigned_loc)
    ELSE HandlingResult(tracked.type, NullPath)

\* The order of the checks of AnalyzeReturnValue, over their outcomes.
ReturnValueResult(t, call_expr, direct, branched, tracked) ==
    IF IsTopLevelExplicitVoidCast(t, call_expr) THEN MakeResult("kCastToVoid")
    ELSE IF direct # "kNone" THEN MakeResult(direct)
    ELSE IF IsIgnoredCallStatement(t, call_expr) THEN MakeResult("kIgnored")
    ELSE IF IsReturnedCall(t, call_expr) THEN MakeResult("kPropagated")
    ELSE IF branched # "kNone" THEN MakeResult(branched)
    ELSE IF tracked.type # "kNone" THEN tracked
    ELSE MakeResult("kUsedOther")

AnalyzeReturnValue(t, call_expr) ==
    ReturnValueResult(t, call_expr,
                      DirectHandlerLoggerUse(t, call_expr),
                      BranchHandlingForCall(t, call_expr),
                      ToHandlingResult(TrackReturnValue(t, call_expr)))

(***************************************************************************)
(* Errno classifier (src/main.cpp:221-301, 436-466, 587-700, 1147-1183,    *)
(* 1313-1405, 1581-1615, 1655-1686).                                       *)
(***************************************************************************)
RECURSIVE IsErrnoExpr(_, _)
IsErrnoExpr(t, e) ==
    IF e = NullPath THEN FALSE
    ELSE LET q == IgnoreParenImpCasts(t, e)
             n == NodeAt(t, q)
         IN IF n.k = "DeclRefExpr" /\ IsVarDeclName(n.n) /\ n.n = "errno" THEN TRUE
            ELSE IF n.k = "UnaryOperator" /\ n.n = "*" THEN IsErrnoExpr(t, q \o <<1>>)
            ELSE IF n.k = "CallExpr" /\ DirectCallee(t, q) # ""
            THEN IsErrnoAccessorName(DirectCallee(t, q))
            ELSE FALSE

\* BinaryOperator::isAssignmentOp()
isAssignmentOp(n) == n.k = "BinaryOperator" /\ n.n \in {"=", "+=", "-="}

\* ErrnoReferenceVisitor: an assignment whose left-hand side is errno is
\* entered through its right-hand side only.
RECURSIVE ErrnoReferenceVisit(_, _)
ErrnoReferenceVisit(t, p) ==
    LET n == NodeAt(t, p)
    IN IF n.k = "Absent" THEN FALSE
       ELSE IF isAssignmentOp(n) /\ IsErrnoExpr(t, p \o <<1>>)
       THEN ErrnoReferenceVisit(t, p \o <<2>>)
       ELSE \/ n.k = "DeclRefExpr" /\ IsVarDeclName(n.n) /\ n.n = "errno"
            \/ n.k = "CallExpr" /\ IsErrnoAccessorName(DirectCallee(t, p))
            \/ \E i \in 1..Len(n.c) : ErrnoReferenceVisit(t, p \o <<i>>)

ContainsErrnoReference(t, s) ==
    IF s = NullPath THEN FALSE ELSE ErrnoReferenceVisit(t, s)

\* ReturnErrnoVisitor
ContainsReturnOfErrno(t, s) ==
    /\ s # NullPath
    /\ \E q \in SubtreePaths(t, s) :
          /\ KindAt(t, q) = "ReturnStmt"
          /\ ContainsErrnoReference(t, RetValue(t, q))

\* ErrnoUsageVisitor: the set of contexts in which Mark() ran.
RECURSIVE ErrnoUsageVisit(_, _, _)
ErrnoUsageVisit(t, p, ctx) ==
    LET n == NodeAt(t, p)
        kids == {i \in 1..Len(n.c) : n.c[i].k # "Absent"}
    IN IF isAssignmentOp(n) /\ IsErrnoExpr(t, p \o <<1>>)
       THEN ErrnoUsageVisit(t, p \o <<2>>, ctx)
       ELSE IF n.k = "CallExpr"
       THEN LET arg_ctx == IF IsCallInSet(t, p, handler_functions) THEN "kHandler"
                           ELSE IF IsCallInSet(t, p, logger_functions) THEN "kLogger"
                           ELSE ctx
            IN (IF IsErrnoAccessorName(DirectCallee(t, p)) THEN {ctx} ELSE {})
               \cup ErrnoUsageVisit(t, p \o <<1>>, ctx)
               \cup UNION {ErrnoUsageVisit(t, p \o <<i>>, arg_ctx) : i \in kids \ {1}}
       ELSE (IF n.k = "DeclRefExpr" /\ IsVarDeclName(n.n) /\ n.n = "errno"
             THEN {ctx} ELSE {})
            \cup UNION {ErrnoUsageVisit(t, p \o <<i>>, ctx) : i \in kids}

AnalyzeErrnoUsage(t, s) ==
    LET marks == IF s = NullPath THEN {} ELSE ErrnoUsageVisit(t, s, "kOther")
    IN [handler |-> "kHandler" \in marks,
        logger |-> "kLogger" \in marks,
        other |-> "kOther" \in marks]

\* An IsErrnoIgnored that looks at the call statement only.
IsErrnoIgnoredHere(t, call_expr) ==
    \/ FindStatementInCompound(t, call_expr) = NullPath
    \/ ~ContainsErrnoReference(t, FindStatementInCompound(t, call_expr))

IsErrnoIgnored(t, call_expr) ==
    LET statement == FindStatementInCompound(t, call_expr)
        next == NextStatementInCompound(t, statement)
    IN IF statement = NullPath THEN TRUE
       ELSE IF ContainsErrnoReference(t, statement) THEN FALSE
       ELSE IF ParentKind(t, statement) # "CompoundStmt" THEN TRUE
       ELSE IF next # NullPath /\ ContainsErrnoReference(t, next) THEN FALSE
       ELSE TRUE

BranchHandlingForErrnoCondition(t, s) ==
    IF s = NullPath THEN "kNone"
    ELSE IF /\ KindAt(t, s) = "IfStmt"
            /\ ContainsErrnoReference(t, s \o <<1>>)
    THEN BranchHandlingType(IfHasCatchall(t, s))
    ELSE IF /\ KindAt(t, s) = "SwitchStmt"
            /\ ContainsErrnoReference(t, s \o <<1>>)
    THEN BranchHandlingType(SwitchHasDefault(t, s))
    ELSE "kNone"

\* [ok, var, loc]: the local errno is copied into and the errno expression.
ErrnoAssignment(ok, var, loc) == [ok |-> ok, var |-> var, loc |-> loc]

NoErrnoAssignment == ErrnoAssignment(FALSE, "", NullPath)

\* The loop of FindErrnoAssignmentInStatement over the declarations of a
\* DeclStmt, from declaration i on.
RECURSIVE ErrnoDeclFrom(_, _, _)
ErrnoDeclFrom(t, s, i) ==
    IF i > Len(NodeAt(t, s).c) THEN NoErrnoAssignment
    ELSE LET d == s \o <<i>>
             init == InitOf(t, d)
         IN IF ~hasLocalStorage(NodeAt(t, d).n) \/ init = NullPath
            THEN ErrnoDeclFrom(t, s, i + 1)
            ELSE IF ~IsErrnoExpr(t, IgnoreParenImpCasts(t, init))
            THEN ErrnoDeclFrom(t, s, i + 1)
            ELSE ErrnoAssignment(TRUE, NodeAt(t, d).n, IgnoreParenImpCasts(t, init))

FindErrnoAssignmentInStatement(t, s) ==
    IF s = NullPath THEN NoErrnoAssignment
    ELSE IF KindAt(t, s) = "DeclStmt" /\ ErrnoDeclFrom(t, s, 1).ok
    THEN ErrnoDeclFrom(t, s, 1)
    ELSE IF KindAt(t, s) = "BinaryOperator"
    THEN LET lhs_var == AsLocalVar(t, s \o <<1>>)
             rhs == IgnoreParenImpCasts(t, s \o <<2>>)
         IN IF NodeAt(t, s).n # "=" THEN NoErrnoAssignment
            ELSE IF lhs_var = "" THEN NoErrnoAssignment
            ELSE IF ~IsErrnoExpr(t, rhs) THEN NoErrnoAssignment
            ELSE ErrnoAssignment(TRUE, lhs_var, rhs)
    ELSE NoErrnoAssignment

\* A TrackErrnoAssignment that also accepts a copy of errno made in the
\* statement after the successor.
TrackErrnoFromThird(t, call_stmt, next, here, after) ==
    IF call_stmt = NullPath THEN NoTracking
    ELSE IF ParentKind(t, call_stmt) # "CompoundStmt" THEN NoTracking
    ELSE IF here.ok
    THEN TrackAssignedValue(t, call_stmt, here.var, here.loc, FALSE)
    ELSE IF next # NullPath /\ after.ok
    THEN TrackAssignedValue(t, next, after.var, after.loc, FALSE)
    ELSE IF FindErrnoAssignmentInStatement(t, NextStatementInCompound(t, next)).ok
    THEN TrackAssignedValue(
             t, NextStatementInCompound(t, next),
             FindErrnoAssignmentInStatement(t, NextStatementInCompound(t, next)).var,
             FindErrnoAssignmentInStatement(t, NextStatementInCompound(t, next)).loc,
             FALSE)
    ELSE NoTracking

\* TrackErrnoAssignment once the call statement, its successor and the errno
\* assignments found in them are known.
TrackErrnoFrom(t, call_stmt, next, here, after) ==
    IF call_stmt = NullPath THEN NoTracking
    ELSE IF ParentKind(t, call_stmt) # "CompoundStmt" THEN NoTracking
    ELSE IF here.ok
    THEN TrackAssignedValue(t, call_stmt, here.var, here.loc, FALSE)
    ELSE IF next # NullPath /\ after.ok
    THEN TrackAssignedValue(t, next, after.var, after.loc, FALSE)
    ELSE NoTracking

TrackErrnoAround(t, call_stmt, next) ==
    TrackErrnoFrom(t, call_stmt, next,
                   FindErrnoAssignmentInStatement(t, call_stmt),
                   FindErrnoAssignmentInStatement(t, next))

\* A TrackErrnoAssignment that accepts a copy of errno in the call statement
\* only.
TrackErrnoHere(t, call_stmt) ==
    TrackErrnoFrom(t, call_stmt, NullPath,
                   FindErrnoAssignmentInStatement(t, call_stmt), NoErrnoAssignment)

TrackErrnoIn(t, call_stmt) ==
    TrackErrnoAround(t, call_stmt, NextStatementInCompound(t, call_stmt))

TrackErrnoAssignment(t, call_expr) ==
    TrackErrnoIn(t, FindStatementInCompound(t, call_expr))

\* An AnalyzeErrnoStatement that never sets `logged`.
ErrnoStatementUseUnlogged(t, s, logged, usage, branched) ==
    IF s = NullPath THEN [type |-> "kNone", logged |-> logged]
    ELSE IF usage.handler THEN [type |-> "kPassedToHandlerFn", logged |-> logged]
    ELSE IF ContainsReturnOfErrno(t, s)
    THEN [type |-> "kPropagated", logged |-> logged]
    ELSE IF branched # "kNone" THEN [type |-> branched, logged |-> logged]
    ELSE IF FindErrnoAssignmentInStatement(t, s).ok
    THEN [type |-> "kNone", logged |-> logged]
    ELSE IF usage.other THEN [type |-> "kUsedOther", logged |-> logged]
    ELSE [type |-> "kNone", logged |-> logged]

\* [type, logged]: the returned HandlingType and the in/out flag `logged`.
ErrnoStatementUse(t, s, logged, usage, branched) ==
    IF s = NullPath THEN [type |-> "kNone", logged |-> logged]
    ELSE IF usage.handler THEN [type |-> "kPassedToHandlerFn", logged |-> logged]
    ELSE IF ContainsReturnOfErrno(t, s)
    THEN [type |-> "kPropagated", logged |-> logged]
    ELSE IF branched # "kNone" THEN [type |-> branched, logged |-> logged]
    ELSE IF FindErrnoAssignmentInStatement(t, s).ok
    THEN [type |-> "kNone", logged |-> logged \/ usage.logger]
    ELSE IF usage.other THEN [type |-> "kUsedOther", logged |-> logged]
    ELSE [type |-> "kNone", logged |-> logged \/ usage.logger]

AnalyzeErrnoStatement(t, s, logged) ==
    ErrnoStatementUse(t, s, logged, AnalyzeErrnoUsage(t, s),
                      BranchHandlingForErrnoCondition(t, s))

\* The order of the checks of AnalyzeErrno, over the outcomes for the call
\* statement (`first`) and its successor (`second`) and the tracker's result.
ErrnoResult(t, call_expr, next, first, second, tracked) ==
    IF IsErrnoIgnored(t, call_expr) THEN MakeResult("kIgnored")
    ELSE IF first.type # "kNone" THEN MakeResult(first.type)
    ELSE IF next # NullPath /\ second.type # "kNone" THEN MakeResult(second.type)
    ELSE IF tracked.type # "kNone" THEN tracked
    ELSE IF (IF next # NullPath THEN second.logged ELSE first.logged)
    THEN MakeResult("kLoggedNotHandled")
    ELSE MakeResult("kUsedOther")

\* `logged` starts false, is threaded through the call statement and then
\* through its successor.
AnalyzeErrnoAfter(t, call_expr, next, first) ==
    ErrnoResult(t, call_expr, next, first,
                AnalyzeErrnoStatement(t, next, first.logged),
                ToHandlingResult(TrackErrnoAssignment(t, call_expr)))

AnalyzeErrnoIn(t, call_expr, statement) ==
    AnalyzeErrnoAfter(t, call_expr, NextStatementInCompound(t, statement),
                      AnalyzeErrnoStatement(t, statement, FALSE))

AnalyzeErrno(t, call_expr) ==
    AnalyzeErrnoIn(t, call_expr, FindStatementInCompound(t, call_expr))

(***************************************************************************)
(* The analysed source.  A program is a descriptor (the text of one        *)
(* function); Build is the frontend, which yields its AST.                 *)
(***************************************************************************)
DeclRef(name) == Node("DeclRefExpr", name, <<>>)
Lit == Node("IntegerLiteral", "1", <<>>)
Paren(e) == Node("ParenExpr", "", <<e>>)
ImplicitCast(e) == Node("ImplicitCastExpr", "", <<e>>)
CStyleCast(ty, e) == Node("CStyleCastExpr", ty, <<e>>)
BinOp(op, a, b) == Node("BinaryOperator", op, <<a, b>>)
UnOp(op, e) == Node("UnaryOperator", op, <<e>>)
\* A call: the callee expression, then the arguments.
CallFn(name, args) == Node("CallExpr", "", <<ImplicitCast(DeclRef(name))>> \o args)
\* A read of a variable (lvalue-to-rvalue conversion).
RValue(name) == ImplicitCast(DeclRef(name))

Absent == Node("Absent", "", <<>>)
NullStmt == Node("NullStmt", "", <<>>)
Compound(stmts) == Node("CompoundStmt", "", stmts)
If(c, th) == Node("IfStmt", "", <<c, th>>)
IfElse(c, th, el) == Node("IfStmt", "", <<c, th, el>>)
Switch(c, body) == Node("SwitchStmt", "", <<c, body>>)
Case(sub) == Node("CaseStmt", "", <<Lit, sub>>)
Default(sub) == Node("DefaultStmt", "", <<sub>>)
Label(sub) == Node("LabelStmt", "", <<sub>>)
Attributed(sub) == Node("AttributedStmt", "", <<sub>>)
While(c, body) == Node("WhileStmt", "", <<c, body>>)
Do(body, c) == Node("DoStmt", "", <<body, c>>)
For(init, c, inc, body) == Node("ForStmt", "", <<init, c, inc, body>>)
Return(e) == Node("ReturnStmt", "", <<e>>)
Decl(var, init) == Node("DeclStmt", "", <<Node("VarDecl", var, <<init>>)>>)
Assign(var, e) == BinOp("=", DeclRef(var), e)

Block == Compound(<<>>)
Cond == RValue("c")

\* n wrapper expressions of kind wk around e.
RECURSIVE Wrapped(_, _, _)
Wrapped(wk, n, e) ==
    IF n = 0 THEN e
    ELSE LET in == Wrapped(wk, n - 1, e)
         IN IF wk = "ParenExpr" THEN Paren(in)
            ELSE IF wk = "ImplicitCastExpr" THEN ImplicitCast(in)
            ELSE CStyleCast("int", in)

\* The expression the watched call occurs in.
Inner(shape, e) ==
    CASE shape = "call" -> e
      [] shape = "arith" -> BinOp("+", e, Lit)
      [] shape = "cmp" -> BinOp("==", e, Lit)
      [] shape = "not" -> UnOp("!", e)
      [] shape = "comma" -> BinOp(",", e, Lit)
      [] shape = "void_comma" -> BinOp(",", CStyleCast("void", e), Lit)
      [] shape = "arg_g" -> CallFn("g", <<e>>)
      [] shape = "arg_fp" -> CallFn("fp", <<e>>)
      [] shape = "arg_malloc" -> CallFn("malloc", <<e>>)
      [] shape = "arg_handle" -> CallFn("handle", <<e>>)
      [] shape = "arg_handle_2nd" -> CallFn("handle", <<Lit, e>>)
      [] shape = "arg_log" -> CallFn("log_error", <<e>>)
      [] shape = "arg_handle_g" -> CallFn("handle", <<CallFn("g", <<e>>)>>)
      [] shape = "arg_log_g" -> CallFn("log_error", <<CallFn("g", <<e>>)>>)
      [] shape = "arg_handle_arith" -> CallFn("handle", <<BinOp("+", e, Lit)>>)
      [] shape = "arg_g_handle" -> CallFn("g", <<CallFn("handle", <<e>>)>>)
      [] shape = "and_errno" -> BinOp("&&", e, RValue("errno"))
      [] shape = "plus_errno" -> BinOp("+", e, RValue("errno"))
      [] shape = "comma_handle_errno" ->
            BinOp(",", e, CallFn("handle", <<RValue("errno")>>))
      [] shape = "comma_log_errno" ->
            BinOp(",", e, CallFn("log_error", <<RValue("errno")>>))

InnerShapes == {"call", "arith", "cmp", "not", "comma", "void_comma", "arg_g",
                "arg_fp", "arg_malloc",
                "arg_handle", "arg_handle_2nd", "arg_log", "arg_handle_g",
                "arg_log_g", "arg_handle_arith", "arg_g_handle"}

\* The expressions that read errno in the statement of the call itself.
ErrnoInnerShapes == {"and_errno", "plus_errno", "comma_handle_errno",
                     "comma_log_errno"}

Outer(shape, e) ==
    CASE shape = "none" -> e
      [] shape = "paren" -> Paren(e)
      [] shape = "void" -> CStyleCast("void", e)
      [] shape = "void_paren" -> CStyleCast("void", Paren(e))

\* The statement the expression e stands in, as the statements of the body.
Place(ctx, e) ==
    CASE ctx = "expr" -> <<e>>
      [] ctx = "decl" -> <<Decl("x", e)>>
      [] ctx = "assign" -> <<Assign("x", e)>>
      [] ctx = "return" -> <<Return(e)>>
      [] ctx = "if" -> <<If(e, Block)>>
      [] ctx = "if_else" -> <<IfElse(e, Block, Block)>>
      [] ctx = "if_elseif" -> <<IfElse(e, Block, If(Cond, Block))>>
      [] ctx = "if_elseif_else" -> <<IfElse(e, Block, IfElse(Cond, Block, Block))>>
      [] ctx = "switch" -> <<Switch(e, Compound(<<Case(NullStmt)>>))>>
      [] ctx = "switch_default" ->
            <<Switch(e, Compound(<<Case(NullStmt), Default(NullStmt)>>))>>
      [] ctx = "switch_nested_default" ->
            <<Switch(e, Compound(<<Case(Switch(Cond, Default(NullStmt)))>>))>>
      [] ctx = "while_cond" -> <<While(e, Block)>>
      [] ctx = "do_cond" -> <<Do(Block, e)>>
      [] ctx = "for_cond" -> <<For(Absent, e, Absent, Block)>>
      [] ctx = "then" -> <<If(Cond, e)>>
      [] ctx = "else" -> <<IfElse(Cond, Block, e)>>
      [] ctx = "while_body" -> <<While(Cond, e)>>
      [] ctx = "do_body" -> <<Do(e, Cond)>>
      [] ctx = "for_body" -> <<For(Absent, Cond, Absent, e)>>
      [] ctx = "for_init" -> <<For(e, Cond, Absent, Block)>>
      [] ctx = "for_inc" -> <<For(Absent, Cond, e, Block)>>
      [] ctx = "switch_body" -> <<Switch(Cond, e)>>
      [] ctx = "case" -> <<Switch(Cond, Compound(<<Case(e)>>))>>
      [] ctx = "default" -> <<Switch(Cond, Compound(<<Default(e)>>))>>
      [] ctx = "label" -> <<Label(e)>>
      [] ctx = "attributed" -> <<Attributed(e)>>
      [] ctx = "block" -> <<Compound(<<e>>)>>
      [] ctx = "elseif" -> <<IfElse(Cond, Block, If(e, Block))>>
      [] ctx = "elseif_else" -> <<IfElse(Cond, Block, IfElse(e, Block, Block))>>
      [] ctx = "loop_if" -> <<While(Cond, If(e, Block))>>
      [] ctx = "then_switch" -> <<If(Cond, Switch(e, Compound(<<Default(NullStmt)>>)))>>
      [] ctx = "then_return" -> <<If(Cond, Return(e))>>
      [] ctx = "block_if" -> <<Compound(<<If(e, Block)>>)>>
      [] ctx = "block_errno" ->
            <<Compound(<<e, Assign("x", RValue("errno"))>>)>>
      [] ctx = "used_before_errno" ->
            <<If(RValue("x"), Block), e, Assign("x", RValue("errno"))>>
      [] ctx = "decl_errno" ->
            <<Node("DeclStmt", "", <<Node("VarDecl", "x", <<e>>),
                                     Node("VarDecl", "y", <<RValue("errno")>>)>>)>>
      [] ctx = "global" -> <<e>>

StmtContexts == {"expr", "decl", "assign", "return", "if", "if_else",
                 "if_elseif", "if_elseif_else", "switch", "switch_default",
                 "switch_nested_default", "while_cond", "do_cond", "for_cond",
                 "then", "else", "while_body", "do_body", "for_body",
                 "for_init", "for_inc", "switch_body", "case", "default",
                 "label", "attributed", "block", "elseif", "elseif_else",
                 "loop_if", "then_switch", "then_return", "block_if"}

\* The two spellings of errno: the variable, and the expansion of the macro.
Errno(form) ==
    IF form = "var" THEN RValue("errno")
    ELSE ImplicitCast(Paren(UnOp("*", CallFn("__errno_location", <<>>))))

\* What follows the call statement: v is the value read (the local x holding
\* the result, or errno).
After(shape, v) ==
    CASE shape = "none" -> <<>>
      [] shape = "if" -> <<If(v, Block)>>
      [] shape = "if_else" -> <<IfElse(v, Block, Block)>>
      [] shape = "if_elseif" -> <<IfElse(v, Block, If(Cond, Block))>>
      [] shape = "switch" -> <<Switch(v, Compound(<<Case(NullStmt)>>))>>
      [] shape = "switch_default" -> <<Switch(v, Compound(<<Default(NullStmt)>>))>>
      [] shape = "return" -> <<Return(v)>>
      [] shape = "if_return" -> <<If(v, Return(v))>>
      [] shape = "handle" -> <<CallFn("handle", <<v>>)>>
      [] shape = "handle_g" -> <<CallFn("handle", <<CallFn("g", <<v>>)>>)>>
      [] shape = "handle_log" -> <<CallFn("handle", <<CallFn("log_error", <<v>>)>>)>>
      [] shape = "log_handle" -> <<CallFn("log_error", <<CallFn("handle", <<v>>)>>)>>
      [] shape = "callee" -> <<Node("CallExpr", "", <<v, Lit>>)>>
      [] shape = "handle_callee" ->
            <<CallFn("handle", <<Node("CallExpr", "", <<v, Lit>>)>>)>>
      [] shape = "log" -> <<CallFn("log_error", <<v>>)>>
      [] shape = "log_if" -> <<CallFn("log_error", <<v>>), If(v, Block)>>
      [] shape = "log_void" -> <<CallFn("log_error", <<v>>), CStyleCast("void", v)>>
      [] shape = "if_handle" -> <<If(v, CallFn("handle", <<v>>))>>
      [] shape = "return_handle" -> <<Return(CallFn("handle", <<v>>))>>
      [] shape = "log_other" -> <<BinOp("+", CallFn("log_error", <<v>>), v)>>
      [] shape = "decl_log_other" ->
            <<Node("DeclStmt", "",
                   <<Node("VarDecl", "y", <<CallFn("log_error", <<v>>)>>),
                     Node("VarDecl", "c", <<BinOp("+", v, Lit)>>)>>)>>
      [] shape = "if_log" -> <<If(v, Compound(<<CallFn("log_error", <<v>>)>>))>>
      [] shape = "void" -> <<CStyleCast("void", v)>>
      [] shape = "other" -> <<CallFn("g", <<v>>)>>
      [] shape = "copy" -> <<Decl("y", v)>>
      [] shape = "copy_assign" -> <<Assign("y", v)>>
      [] shape = "copy_if" -> <<Decl("y", v), If(RValue("y"), Block)>>
      [] shape = "copy_void" -> <<Decl("y", v), CStyleCast("void", RValue("y"))>>
      [] shape = "copy_return" -> <<Decl("y", v), Return(RValue("y"))>>
      [] shape = "copy_copy" -> <<Decl("y", v), Decl("c", RValue("y"))>>
      [] shape = "copy_global" -> <<Assign("gv", v)>>
      [] shape = "copy_cast" -> <<Decl("y", CStyleCast("int", v))>>
      [] shape = "copy_self" -> <<Assign("x", v)>>
      [] shape = "copy_twice" ->
            <<Node("DeclStmt", "",
                   <<Node("VarDecl", "y", <<v>>), Node("VarDecl", "c", <<v>>)>>)>>
      [] shape = "kill" -> <<Assign("x", Lit)>>
      [] shape = "log_kill" -> <<CallFn("log_error", <<v>>), Assign("x", Lit)>>
      [] shape = "clear" -> <<Assign("errno", Lit)>>
      [] shape = "clear_deref" ->
            <<BinOp("=", Paren(UnOp("*", CallFn("__errno_location", <<>>))), Lit)>>
      [] shape = "add" -> <<BinOp("+=", DeclRef("errno"), Lit)>>
      [] shape = "set_from" -> <<BinOp("=", DeclRef("errno"), BinOp("+", v, Lit))>>
      [] shape = "copy_handle" -> <<Decl("y", v), CallFn("handle", <<RValue("y")>>)>>
      [] shape = "log_copy" -> <<CallFn("log_error", <<v>>), Decl("y", v)>>
      [] shape = "copy_log" -> <<Decl("y", v), CallFn("log_error", <<RValue("y")>>)>>
      [] shape = "copy_if_return" ->
            <<Decl("y", v), If(RValue("y"), Return(RValue("y")))>>
      [] shape = "copy_if_orig" -> <<Decl("y", v), If(v, Block)>>
      [] shape = "copy_return_orig" -> <<Decl("y", v), Return(v)>>

LocalAfterShapes == {"handle_log", "log_handle", "callee", "handle_callee",
                     "none", "if", "if_else", "if_elseif", "switch",
                     "switch_default", "return", "if_return", "handle",
                     "handle_g", "log", "log_if", "if_log", "void", "other",
                     "copy", "copy_assign", "copy_if", "copy_void",
                     "copy_return", "kill", "log_kill", "copy_handle",
                     "copy_log", "copy_if_return", "copy_if_orig",
                     "copy_return_orig", "log_copy", "log_void", "if_handle",
                     "return_handle", "log_other", "decl_log_other",
                     "copy_copy", "copy_global", "copy_cast", "copy_self",
                     "copy_twice"}

ErrnoAfterShapes == {"handle_log", "log_handle",
                     "none", "if", "if_else", "switch", "switch_default",
                     "return", "if_return", "handle", "log", "log_if", "if_log",
                     "void", "other", "copy", "copy_assign", "copy_if",
                     "copy_void", "copy_return", "clear", "clear_deref", "add",
                     "set_from", "copy_handle", "copy_log", "copy_if_return",
                     "log_copy"}

\* What is done with the local y that the call statement copied errno into.
CopyAfterShapes == {"none", "if", "if_else", "switch_default", "return",
                    "if_return", "handle", "log", "void", "other", "clear"}

\* n statements that touch neither the result nor errno.
Pad(n) == [i \in 1..n |-> Assign("c", Lit)]

\* The AST of the body of the analysed function.
\* The functions of the analysed code that forward malloc: xmalloc returns
\* the call, ymalloc stores it in a local and returns the local.
WrapperNames == {"xmalloc", "ymalloc"}

WrapperFunction(fn) ==
    Node("FunctionDecl", fn,
         <<Compound(IF fn = "xmalloc"
                    THEN <<Return(CallFn("malloc", <<Lit>>))>>
                    ELSE <<Decl("y", CallFn("malloc", <<Lit>>)),
                           Return(RValue("y"))>>)>>)

\* The unit of a program that calls a wrapper: the wrapper's definition, then
\* the function with the call.
WithWrapper(fn, body) ==
    IF fn \in WrapperNames
    THEN Node("TranslationUnitDecl", "",
              <<WrapperFunction(fn), Node("FunctionDecl", "f", <<body>>)>>)
    ELSE body

Build(d) ==
    LET call == Wrapped(d.wk, d.wn, CallFn(d.fn, <<Lit>>))
        stmts == Place(d.stmt, Outer(d.outer, Inner(d.inner, call)))
        v == IF d.stmt = "decl_errno" THEN RValue("y")
             ELSE IF d.stmt \in {"block_errno", "used_before_errno"}
             THEN RValue("x")
             ELSE IF d.fn = "strtoull" THEN Errno(d.form) ELSE RValue("x")
    IN IF d.stmt = "global" THEN Node("VarDecl", "gv", stmts)
       ELSE WithWrapper(d.fn, Compound(stmts \o Pad(d.pad) \o After(d.after, v)))

Wraps == {[wk |-> "ParenExpr", wn |-> 0]}
         \cup [wk : WrapperKinds, wn : 1..MaxWrap]

Program(stmt, inner, outer, w, fn, form, after, pad) ==
    [stmt |-> stmt, inner |-> inner, outer |-> outer, wk |-> w.wk, wn |-> w.wn,
     fn |-> fn, form |-> form, after |-> after, pad |-> pad]

\* Where an expression statement can stand; only there can the whole
\* expression be a cast to void.
ExprStmtContexts == {"expr", "then", "else", "while_body", "do_body", "for_body",
                     "for_init", "for_inc", "switch_body", "case", "default",
                     "label", "attributed", "block"}

\* A return-value call in every position, nothing after it.
DirectPrograms ==
    {Program(stmt, inner, outer, w, "malloc", "var", "none", 0) :
        stmt \in StmtContexts, inner \in InnerShapes, outer \in {"none", "paren"},
        w \in Wraps}
    \cup
    {Program(stmt, inner, outer, w, "malloc", "var", "none", 0) :
        stmt \in ExprStmtContexts, inner \in InnerShapes,
        outer \in {"void", "void_paren"}, w \in Wraps}

\* A return-value call stored in the local x, and what is done with x.
TrackedPrograms ==
    {Program(stmt, inner, "none", w, "malloc", "var", after, pad) :
        stmt \in {"decl", "assign"}, inner \in {"call", "arith", "arg_g"},
        w \in Wraps, after \in LocalAfterShapes, pad \in 0..MaxPad}

\* An errno call whose errno is stored in x inside a nested block, or after
\* x was tested, and what is done with x in the function's block afterwards.
ConfinedPrograms ==
    {Program(stmt, "call", "none", w, "strtoull", "var", after, pad) :
        stmt \in {"block_errno", "used_before_errno"},
        w \in {[wk |-> "ParenExpr", wn |-> 0]},
        after \in {"none", "if", "return", "handle", "log", "copy"},
        pad \in 0..MaxPad}

\* An errno call, and what is done with errno after it.
ErrnoPrograms ==
    {Program(stmt, "call", "none", w, "strtoull", form, after, pad) :
        stmt \in {"expr", "decl", "if", "then", "block"},
        w \in {[wk |-> "ParenExpr", wn |-> 0]},
        form \in {"var", "macro"}, after \in ErrnoAfterShapes, pad \in 0..MaxPad}
    \cup
    {Program(stmt, inner, "none", w, "strtoull", form, after, 0) :
        stmt \in {"expr", "decl", "if"}, inner \in ErrnoInnerShapes,
        w \in {[wk |-> "ParenExpr", wn |-> 0]},
        form \in {"var", "macro"}, after \in ErrnoAfterShapes}
    \cup
    {Program("decl_errno", "call", "none", w, "strtoull", "var", after, pad) :
        w \in {[wk |-> "ParenExpr", wn |-> 0]}, after \in CopyAfterShapes,
        pad \in 0..MaxPad}
    \cup
    {Program("global", inner, "none", w, "strtoull", "var", "none", 0) :
        inner \in {"call", "plus_errno"}, w \in {[wk |-> "ParenExpr", wn |-> 0]}}

\* A call of a wrapper of malloc, in the unit that defines the wrapper.
WrapperPrograms ==
    {Program(stmt, "call", "none", w, fn, "var", after, 0) :
        stmt \in {"expr", "decl", "if", "return"},
        w \in {[wk |-> "ParenExpr", wn |-> 0]}, fn \in WrapperNames,
        after \in {"none", "if", "return"}}

Programs ==
    DirectPrograms \cup TrackedPrograms \cup ErrnoPrograms \cup WrapperPrograms
    \cup ConfinedPrograms

(***************************************************************************)
(* Notable functions (src/main.cpp:85-96, 124-219).                        *)
(***************************************************************************)
\* A JSON field that is absent.
Missing == "<missing>"

\* A JSON field that is present with a value that is not a string (a number).
NotAString == "<number>"

\* Object::getString: the string value of a field, nothing when the field is
\* absent or holds another kind of value.
GetString(object, field) ==
    IF object[field] = NotAString THEN Missing ELSE object[field]

Entry(name, type, reporting) ==
    [name |-> name, type |-> type, reporting |-> reporting]

\* The notable-functions files of the model, by name; "unreadable" cannot be
\* opened, "invalid_json" does not parse and "not_array" holds a JSON object.
ConfigFiles ==
    {"std", "unreadable", "duplicate", "type_and_reporting", "not_object",
     "empty_name", "number_name", "twice", "bad_type", "bad_reporting",
     "no_shape", "number_type", "number_reporting", "invalid_json",
     "not_array"}

StdConfig == <<Entry("malloc", Missing, "return_value"),
               Entry("strtoull", Missing, "errno"),
               Entry("handle", "handler", Missing),
               Entry("log_error", "logger", Missing)>>

ConfigContents(file) ==
    CASE file = "std" -> StdConfig
      [] file = "duplicate" -> StdConfig \o <<Entry("malloc", "handler", Missing)>>
      [] file = "type_and_reporting" ->
            <<Entry("handle", "handler", "return_value")>> \o StdConfig
      [] file = "not_object" -> StdConfig \o <<[scalar |-> TRUE]>>
      [] file = "empty_name" -> StdConfig \o <<Entry("", Missing, "errno")>>
      [] file = "number_name" ->
            StdConfig \o <<Entry(NotAString, Missing, "errno")>>
      [] file = "twice" -> StdConfig \o <<Entry("malloc", Missing, "errno")>>
      [] file = "bad_type" -> StdConfig \o <<Entry("abort", "panic", Missing)>>
      [] file = "bad_reporting" ->
            StdConfig \o <<Entry("calloc", Missing, "exception")>>
      [] file = "no_shape" -> StdConfig \o <<Entry("calloc", Missing, Missing)>>
      [] file = "number_type" ->
            StdConfig \o <<Entry("calloc", NotAString, "errno")>>
      [] file = "number_reporting" ->
            StdConfig \o <<Entry("abort", "handler", NotAString)>>
      [] OTHER -> <<>>

ParseErrorReportingType(value) ==
    IF value = "return_value" THEN "kReturnValue"
    ELSE IF value = "errno" THEN "kErrno"
    ELSE ""

Loaded(ok, out, handlers, loggers) ==
    [ok |-> ok, out |-> out, handlers |-> handlers, loggers |-> loggers]

NotableNames(out) == {e[1] : e \in out}

\* The loop of LoadNotableFunctions over the array, from element i on.
RECURSIVE LoadFrom(_, _, _, _, _)
LoadFrom(array, i, out, handlers, loggers) ==
    IF i > Len(array) THEN Loaded(TRUE, out, handlers, loggers)
    ELSE LET e == array[i]
             fail == Loaded(FALSE, out, handlers, loggers)
         IN IF "name" \notin DOMAIN e THEN fail
            ELSE IF GetString(e, "name") \in {Missing, ""} THEN fail
            ELSE IF GetString(e, "type") # Missing
            THEN IF e.type # "handler" /\ e.type # "logger" THEN fail
                 ELSE IF GetString(e, "reporting") # Missing THEN fail
                 ELSE IF e.name \in NotableNames(out) \cup handlers \cup loggers
                 THEN fail
                 ELSE IF e.type = "handler"
                 THEN LoadFrom(array, i + 1, out, handlers \cup {e.name}, loggers)
                 ELSE LoadFrom(array, i + 1, out, handlers, loggers \cup {e.name})
            ELSE IF GetString(e, "reporting") = Missing THEN fail
            ELSE IF ParseErrorReportingType(e.reporting) = "" THEN fail
            ELSE IF e.name \in handlers \cup loggers THEN fail
            ELSE IF e.name \in NotableNames(out) THEN fail
            ELSE LoadFrom(array, i + 1,
                          out \cup {<<e.name, ParseErrorReportingType(e.reporting)>>},
                          handlers, loggers)

LoadNotableFunctions(file) ==
    IF file \in {"unreadable", "invalid_json", "not_array"}
    THEN Loaded(FALSE, {}, {}, {})
    ELSE LoadFrom(ConfigContents(file), 1, {}, {}, {})

\* notable_functions_.find(func): the reporting type, "" when absent.
ReportingOf(func) ==
    IF \E e \in notable_functions : e[1] = func
    THEN (CHOOSE e \in notable_functions : e[1] = func)[2]
    ELSE ""

(***************************************************************************)
(* Source locations (SourceManager::getPresumedLoc, used at                *)
(* src/main.cpp:927-932 and 1203-1219).  Every statement of the body is on *)
(* a line of its own; the column numbers the nodes of a line.              *)
(***************************************************************************)
UnitFiles == <<"unit1.c", "unit2.c", "unit3.c", "unit4.c">>

FileOf(unit) == IF shared THEN "shared.h" ELSE UnitFiles[unit]

RECURSIVE ColumnOf(_)
ColumnOf(p) == IF p = <<>> THEN 1 ELSE ColumnOf(Parent(p)) * 8 + p[Len(p)]

PresumedLoc(unit, p) ==
    [filename |-> FileOf(unit), line |-> Head(p), column |-> ColumnOf(Tail(p))]

(***************************************************************************)
(* SqliteWriter (src/main.cpp:702-877) and the walker (889-937).           *)
(***************************************************************************)
\* A HandlingTypeName that knows only the categories of the first version
\* (src/unnamed/part_000); any other type maps to the empty string.
HandlingTypeNameOld(type) ==
    CASE type = "kIgnored" -> "ignored"
      [] type = "kAssignedNotRead" -> "assigned_not_read"
      [] type = "kLoggedNotHandled" -> "logged_not_handled"
      [] OTHER -> ""

HandlingTypeName(type) ==
    CASE type = "kIgnored" -> "ignored"
      [] type = "kCastToVoid" -> "cast_to_void"
      [] type = "kAssignedNotRead" -> "assigned_not_read"
      [] type = "kBranchedNoCatchall" -> "branched_no_catchall"
      [] type = "kBranchedWithCatchall" -> "branched_with_catchall"
      [] type = "kPropagated" -> "propagated"
      [] type = "kPassedToHandlerFn" -> "passed_to_handler_fn"
      [] type = "kUsedOther" -> "used_other"
      [] type = "kLoggedNotHandled" -> "logged_not_handled"
      [] OTHER -> ""

\* std::optional<AssignedLocation>: <<>> for std::nullopt (the three assigned
\* columns are then NULL), else <<filename, line, column>>.
ToAssignedLocation(unit, loc) ==
    IF loc = NullPath THEN <<>>
    ELSE LET l == PresumedLoc(unit, loc) IN <<l.filename, l.line, l.column>>

Row(name, filename, line, column, handling_type, assigned) ==
    [name |-> name, filename |-> filename, line |-> line, column |-> column,
     handling_type |-> handling_type, assigned |-> assigned]

\* A database file left by an earlier run.
StaleRows == <<Row("malloc", "old.c", 1, 1, "ignored", <<>>)>>

\* What sqlite3_bind_* and sqlite3_step can do.
SinkOutcomes == {"done", "bind_failed", "bind_assigned_failed", "step_failed"}

\* An InsertCall without the test of error_message_ at its start.
InsertedRowsUnlatched(row, outcome) ==
    IF outcome = "done" THEN Append(rows, row) ELSE rows

\* The table after InsertCall: unchanged once an error is latched or when the
\* statement fails.
InsertedRows(row, outcome) ==
    IF error_message # "" THEN rows
    ELSE IF outcome = "done" THEN Append(rows, row)
    ELSE rows

\* error_message_ after InsertCall (SetError keeps the first message).
InsertedError(outcome) ==
    IF error_message # "" THEN error_message
    ELSE IF outcome = "bind_failed" THEN "Failed to bind insert parameters"
    ELSE IF outcome = "bind_assigned_failed"
    THEN "Failed to bind assigned parameters"
    ELSE IF outcome = "step_failed" THEN "Failed to insert row"
    ELSE error_message

\* The call expressions of a tree, in visit order.
RECURSIVE SelectCalls(_, _)
SelectCalls(t, paths) ==
    IF paths = <<>> THEN <<>>
    ELSE (IF KindAt(t, Head(paths)) = "CallExpr" THEN <<Head(paths)>> ELSE <<>>)
         \o SelectCalls(t, Tail(paths))

CallExprs(t) == SelectCalls(t, PreOrder(t, <<>>))

\* The classification of TraverseStmt for a watched call.
Fallback(handling) ==
    IF handling.type = "kNone" THEN HandlingResult("kUsedOther", handling.assigned)
    ELSE handling

Handling(t, call, reporting) ==
    Fallback(IF reporting = "kReturnValue" THEN AnalyzeReturnValue(t, call)
             ELSE AnalyzeErrno(t, call))

\* A row that always carries an assignment site: that of the call when the
\* classification has none.
RowOfSited(unit, func, loc, handling) ==
    Row(func, loc.filename, loc.line, loc.column, HandlingTypeName(handling.type),
        IF handling.assigned = NullPath
        THEN <<loc.filename, loc.line, loc.column>>
        ELSE ToAssignedLocation(unit, handling.assigned))

\* The row TraverseStmt hands to InsertCall.
RowOf(unit, func, loc, handling) ==
    Row(func, loc.filename, loc.line, loc.column, HandlingTypeName(handling.type),
        ToAssignedLocation(unit, handling.assigned))

WatchedRow(t, unit, callExpr) ==
    RowOf(unit, CalleeDecl(t, callExpr), PresumedLoc(unit, callExpr),
          Handling(t, callExpr, ReportingOf(CalleeDecl(t, callExpr))))

\* Whether TraverseStmt reaches InsertCall for the call expression.
IsWatchedCall(t, call) ==
    /\ CalleeDecl(t, call) \in FunctionNames
    /\ ReportingOf(CalleeDecl(t, call)) # ""

(***************************************************************************)
(* The run: main() (src/main.cpp:1993-2038).                               *)
(***************************************************************************)
Inputs(programs, configs, paths, flags, counts) ==
    /\ prog \in programs
    /\ cfg \in configs
    /\ fs \in paths
    /\ overwrite \in flags
    /\ units \in counts
    /\ shared \in BOOLEAN
    /\ rows = IF fs = "file" THEN StaleRows ELSE <<>>
    /\ pc = "start"
    /\ notable_functions = {}
    /\ handler_functions = {}
    /\ logger_functions = {}
    /\ error_message = ""
    /\ tu = 0
    /\ ast = Absent
    /\ pos = 0
    /\ result = 0
    /\ exit_code = -1
    /\ runs = 1

\* A few programs under every command line and database path.
BasicPrograms ==
    {d \in Programs : /\ d.stmt \in {"expr", "decl", "if"}
                      /\ d.inner \in {"call", "arith", "arg_handle"}
                      /\ d.outer = "none"
                      /\ d.wn = 0
                      /\ d.pad = 0
                      /\ d.form = "var"
                      /\ d.after \in {"none", "if", "copy", "log"}}

Init ==
    Inputs(BasicPrograms, ConfigFiles, {"absent", "file", "dir"}, BOOLEAN,
           1..MaxUnits)

\* Every program, one unit, the standard registry and a fresh database path.
InitClassify ==
    /\ Inputs(Programs, {"std"}, {"absent"}, {FALSE}, {1})
    /\ ~shared

Exit(code) ==
    /\ pc' = "done"
    /\ exit_code' = code

\* A main that goes on after LoadNotableFunctions has failed.
LoadConfigLenient ==
    /\ pc = "start"
    /\ LET l == LoadNotableFunctions(cfg)
       IN /\ notable_functions' = l.out
          /\ handler_functions' = l.handlers
          /\ logger_functions' = l.loggers
          /\ pc' = "loaded"
          /\ UNCHANGED exit_code
    /\ UNCHANGED <<runs, cfg, overwrite, fs, prog, shared, units, rows, error_message,
                   tu, ast, pos, result>>

LoadConfig ==
    /\ pc = "start"
    /\ LET l == LoadNotableFunctions(cfg)
       IN /\ notable_functions' = l.out
          /\ handler_functions' = l.handlers
          /\ logger_functions' = l.loggers
          /\ IF l.ok THEN pc' = "loaded" /\ UNCHANGED exit_code
             ELSE Exit(1)
    /\ UNCHANGED <<runs, cfg, overwrite, fs, prog, shared, units, rows, error_message,
                   tu, ast, pos, result>>

\* An Open that neither removes an existing file nor empties watched_calls.
OpenDatabaseKeeping ==
    /\ pc = "loaded"
    /\ IF fs # "absent" /\ (~overwrite \/ fs = "dir")
       THEN Exit(1) /\ UNCHANGED <<fs, rows>>
       ELSE /\ pc' = "opened"
            /\ fs' = "file"
            /\ rows' = rows
            /\ UNCHANGED exit_code
    /\ UNCHANGED <<runs, cfg, overwrite, prog, shared, units, notable_functions,
                   handler_functions, logger_functions, error_message, tu, ast,
                   pos, result>>

\* An Open that removes an existing file whether or not --overwrite-if-needed
\* was given.
OpenDatabaseForced ==
    /\ pc = "loaded"
    /\ IF fs = "dir"
       THEN Exit(1) /\ UNCHANGED <<fs, rows>>
       ELSE /\ pc' = "opened"
            /\ fs' = "file"
            /\ rows' = <<>>
            /\ UNCHANGED exit_code
    /\ UNCHANGED <<runs, cfg, overwrite, prog, shared, units, notable_functions,
                   handler_functions, logger_functions, error_message, tu, ast,
                   pos, result>>

\* SqliteWriter::Open: the path is refused when it exists without
\* --overwrite-if-needed or is a directory; otherwise the file is removed,
\* created again and watched_calls emptied.
OpenDatabase ==
    /\ pc = "loaded"
    /\ IF fs # "absent" /\ (~overwrite \/ fs = "dir")
       THEN Exit(1) /\ UNCHANGED <<fs, rows>>
       ELSE /\ pc' = "opened"
            /\ fs' = "file"
            /\ rows' = <<>>
            /\ UNCHANGED exit_code
    /\ UNCHANGED <<runs, cfg, overwrite, prog, shared, units, notable_functions,
                   handler_functions, logger_functions, error_message, tu, ast,
                   pos, result>>

UnitDone == pos = Len(CallExprs(ast))

\* The frontend built the next unit: its traversal starts.
BeginUnit ==
    /\ pc = "opened"
    /\ UnitDone
    /\ tu < units
    /\ tu' = tu + 1
    /\ ast' = Build(prog)
    /\ pos' = 0
    /\ UNCHANGED <<runs, pc, cfg, overwrite, fs, prog, shared, units, notable_functions,
                   handler_functions, logger_functions, rows, error_message,
                   result, exit_code>>

\* The frontend could not build the next unit: it is not traversed and the
\* run will report failure.
FrontendError ==
    /\ pc = "opened"
    /\ UnitDone
    /\ tu < units
    /\ tu' = tu + 1
    /\ ast' = Absent
    /\ pos' = 0
    /\ result' = 1
    /\ UNCHANGED <<runs, pc, cfg, overwrite, fs, prog, shared, units, notable_functions,
                   handler_functions, logger_functions, rows, error_message,
                   exit_code>>

\* ErrorCheckVisitor::TraverseStmt at the next call expression of the unit.
TraverseStmt ==
    /\ pc = "opened"
    /\ tu >= 1
    /\ pos < Len(CallExprs(ast))
    /\ pos' = pos + 1
    /\ \E callExpr \in {CallExprs(ast)[pos + 1]} :
          IF IsWatchedCall(ast, callExpr)
          THEN \E outcome \in SinkOutcomes :
                  /\ rows' = InsertedRows(WatchedRow(ast, tu, callExpr), outcome)
                  /\ error_message' = InsertedError(outcome)
          ELSE UNCHANGED <<rows, error_message>>
    /\ UNCHANGED <<runs, pc, cfg, overwrite, fs, prog, shared, units, notable_functions,
                   handler_functions, logger_functions, tu, ast, result,
                   exit_code>>

\* Tool.run returned: the exit code is EXIT_FAILURE after a sink error, else
\* the result of the tool.
Finish ==
    /\ pc = "opened"
    /\ tu = units
    /\ UnitDone
    /\ Exit(IF error_message # "" THEN 1 ELSE result)
    /\ UNCHANGED <<runs, cfg, overwrite, fs, prog, shared, units, notable_functions,
                   handler_functions, logger_functions, rows, error_message, tu,
                   ast, pos, result>>

\* The engine is started again with the same command line: a new process,
\* the same files.
Rerun ==
    /\ pc = "done"
    /\ runs < MaxRuns
    /\ runs' = runs + 1
    /\ pc' = "start"
    /\ notable_functions' = {}
    /\ handler_functions' = {}
    /\ logger_functions' = {}
    /\ error_message' = ""
    /\ tu' = 0
    /\ ast' = Absent
    /\ pos' = 0
    /\ result' = 0
    /\ exit_code' = -1
    /\ UNCHANGED <<cfg, overwrite, fs, prog, shared, units, rows>>

Next ==
    \/ LoadConfig
    \/ OpenDatabase
    \/ BeginUnit
    \/ FrontendError
    \/ TraverseStmt
    \/ Finish

Spec == Init /\ [][Next]_vars

SpecClassify == InitClassify /\ [][Next]_vars

\* Runs with --overwrite-if-needed, repeated on the same inputs and path.
InitRerun ==
    Inputs(BasicPrograms, {"std"}, {"absent", "file"}, {TRUE}, 1..MaxUnits)

NextRerun ==
    \/ LoadConfig
    \/ OpenDatabase
    \/ BeginUnit
    \/ FrontendError
    \/ TraverseStmt
    \/ Finish
    \/ Rerun

SpecRerun == InitRerun /\ [][NextRerun]_vars

(***************************************************************************)
(* What the documentation says about a call, read off the tree.            *)
(***************************************************************************)
Categories == {"ignored", "cast_to_void", "assigned_not_read",
               "branched_no_catchall", "branched_with_catchall", "propagated",
               "passed_to_handler_fn", "logged_not_handled", "used_other"}

\* The call expressions of the current unit that have been visited.
VisitedCalls == Range(SubSeq(CallExprs(ast), 1, pos))

\* The rows recorded for the call expression p of the current unit.
RowsAt(p) ==
    {i \in 1..Len(rows) : /\ rows[i].name = CalleeDecl(ast, p)
                          /\ rows[i].filename = FileOf(tu)
                          /\ rows[i].line = Head(p)
                          /\ rows[i].column = ColumnOf(Tail(p))}

\* <<p, i>>: row i was recorded for the visited call p, a call of a function
\* registered with the given reporting type.
RowsFor(reporting) ==
    IF pos = 0 \/ rows = <<>> THEN {}
    ELSE {e \in VisitedCalls \X (1..Len(rows)) :
             /\ e[2] \in RowsAt(e[1])
             /\ ReportingOf(rows[e[2]].name) = reporting}

CategoryOf(e) == rows[e[2]].handling_type

\* The key the README declares unique.
RowKey(r) == <<r.name, r.filename, r.line, r.column, r.handling_type>>

\* The nodes above p, the body of the function included.
Ancestors(p) == {SubSeq(p, 1, n) : n \in 0..(Len(p) - 1)}

\* The nodes strictly between the ancestor q of p and p.
Between(q, p) == {r \in Ancestors(p) : IsPrefix(q, r) /\ r # q}

\* The node reached from p by walking up through wrapper expressions only.
RECURSIVE WrapperTop(_, _)
WrapperTop(t, p) ==
    IF ParentKind(t, p) \in WrapperKinds THEN WrapperTop(t, Parent(p)) ELSE p

\* The outermost expression p is part of.
RECURSIVE OutermostExpr(_, _)
OutermostExpr(t, p) ==
    IF IsExprKind(ParentKind(t, p)) THEN OutermostExpr(t, Parent(p)) ELSE p

IsVoidCast(t, q) == KindAt(t, q) = "CStyleCastExpr" /\ NodeAt(t, q).n = "void"

\* An explicit cast to void is reached from p through wrappers only.
VoidCastThroughWrappers(t, p) ==
    \E q \in Ancestors(p) :
        /\ IsVoidCast(t, q)
        /\ \A r \in Between(q, p) : KindAt(t, r) \in WrapperKinds

\* p is under an explicit cast to void, but not through wrappers only.
VoidCastThroughOther(t, p) ==
    /\ \E q \in Ancestors(p) : IsVoidCast(t, q)
    /\ ~VoidCastThroughWrappers(t, p)

\* The calls that have p somewhere inside one of their arguments.
EnclosingCalls(t, p) ==
    {q \in Ancestors(p) : /\ KindAt(t, q) = "CallExpr"
                          /\ p[Len(q) + 1] >= 2}

InArgumentOf(t, p, names) ==
    \E q \in EnclosingCalls(t, p) : DirectCallee(t, q) \in names

\* The innermost call that has p inside an argument is one of `names`.
NearestCallIn(t, p, names) ==
    \E q \in EnclosingCalls(t, p) :
        /\ DirectCallee(t, q) \in names
        /\ \A r \in EnclosingCalls(t, p) : Len(r) <= Len(q)

\* The statement positions of CHECKS.md, "ignored (return_value)".
InStatementPosition(t, s) ==
    \/ ParentKind(t, s) = "CompoundStmt"
    \/ ParentKind(t, s) = "IfStmt" /\ s[Len(s)] \in {2, 3}
    \/ ParentKind(t, s) \in {"WhileStmt", "SwitchStmt"} /\ s[Len(s)] = 2
    \/ ParentKind(t, s) = "DoStmt" /\ s[Len(s)] = 1
    \/ ParentKind(t, s) = "ForStmt" /\ s[Len(s)] \in {1, 3, 4}
    \/ ParentKind(t, s) = "CaseStmt" /\ s[Len(s)] = 2
    \/ ParentKind(t, s) \in {"DefaultStmt", "LabelStmt", "AttributedStmt"}

\* The return statement whose value p is part of, if any.
InReturnValue(t, p) == \E q \in Ancestors(p) : KindAt(t, q) = "ReturnStmt"

\* The if and switch statements that have p in their condition.
ConditionsWith(t, p) ==
    {q \in Ancestors(p) : /\ KindAt(t, q) \in {"IfStmt", "SwitchStmt"}
                          /\ p[Len(q) + 1] = 1}

\* An if-chain ends in an else that is not an if.
RECURSIVE EndsInElse(_, _)
EndsInElse(t, q) ==
    /\ Len(NodeAt(t, q).c) = 3
    /\ IF KindAt(t, q \o <<3>>) = "IfStmt" THEN EndsInElse(t, q \o <<3>>) ELSE TRUE

\* A default label belongs to the innermost switch around it.
HasDefaultLabel(t, q) ==
    \E d \in SubtreePaths(t, q) :
        /\ KindAt(t, d) = "DefaultStmt"
        /\ \A r \in Between(q, d) : KindAt(t, r) # "SwitchStmt"

HasCatchAll(t, q) ==
    IF KindAt(t, q) = "IfStmt" THEN EndsInElse(t, q) ELSE HasDefaultLabel(t, q)

(***************************************************************************)
(* One row per watched call.                                               *)
(***************************************************************************)
\* C1: while the sink has latched no error, visiting a call of a watched
\* function appends exactly one row, for that call and with one of the nine
\* categories (never the empty string), visiting any other call expression
\* appends none, and no row already written is touched.
C1_OneRowPerWatchedCall ==
    [][(pc = "opened" /\ pos' = pos + 1 /\ error_message' = "") =>
          IF IsWatchedCall(ast, CallExprs(ast)[pos + 1])
          THEN /\ Len(rows') = Len(rows) + 1
               /\ SubSeq(rows', 1, Len(rows)) = rows
               /\ rows'[Len(rows')].handling_type \in Categories
               /\ rows'[Len(rows')].name = CalleeDecl(ast, CallExprs(ast)[pos + 1])
               /\ rows'[Len(rows')].filename = FileOf(tu)
               /\ rows'[Len(rows')].line = Head(CallExprs(ast)[pos + 1])
          ELSE rows' = rows]_vars

\* A run without sink error has visited a watched call that no specific rule
\* matches and has recorded it as used_other.
C1_Witness ==
    /\ error_message = ""
    /\ pc = "done"
    /\ \E e \in RowsFor("kReturnValue") \cup RowsFor("kErrno") :
          CategoryOf(e) = "used_other"

(***************************************************************************)
(* Uniqueness of rows.                                                     *)
(***************************************************************************)
\* C2: no two rows of watched_calls have the same name, filename, line, column
\* and handling_type.
C2_NoDuplicateRows ==
    \A i, j \in 1..Len(rows) : RowKey(rows[i]) = RowKey(rows[j]) => i = j

(***************************************************************************)
(* Assignments and initializers of return-value calls.                     *)
(***************************************************************************)
\* The program that declares x with the initializer the program d assigns to x.
AsDeclaration(d) == [d EXCEPT !.stmt = "decl"]

\* The category TraverseStmt records for the watched call of the tree t.
CategoryIn(t) ==
    HandlingTypeName(
        Handling(t, CHOOSE p \in SubtreePaths(t, <<>>) :
                       KindAt(t, p) = "CallExpr" /\ IsWatchedCall(t, p),
                 "kReturnValue").type)

\* `x = f();`, the call under wrappers only.
IsPlainAssignment(d) ==
    d.stmt = "assign" /\ d.inner = "call" /\ d.outer \in {"none", "paren"}

\* C3: the row of a return-value call written `x = f();` has the category
\* that the same call gets when written `T x = f();`, whatever statements
\* follow.
C3_AssignmentLikeDeclaration ==
    \A e \in RowsFor("kReturnValue") :
        IsPlainAssignment(prog) =>
            CategoryOf(e) = CategoryIn(Build(AsDeclaration(prog)))

\* The outermost expression of p is the initializer of a local variable or
\* the right-hand side of an assignment statement to a local variable.
InInitializer(t, p) ==
    \/ ParentKind(t, OutermostExpr(t, p)) = "VarDecl"
    \/ \E q \in Ancestors(p) :
          /\ KindAt(t, q) = "BinaryOperator" /\ NodeAt(t, q).n = "="
          /\ ~IsExprKind(ParentKind(t, q))
          /\ AsLocalVar(t, q \o <<1>>) # ""
          /\ p[Len(q) + 1] = 2

\* The call is, through wrappers only, the whole initializer or right-hand side.
IsWholeInitializer(t, p) ==
    \/ ParentKind(t, WrapperTop(t, p)) = "VarDecl"
    \/ /\ ParentKind(t, WrapperTop(t, p)) = "BinaryOperator"
       /\ NodeAt(t, Parent(WrapperTop(t, p))).n = "="
       /\ ~IsExprKind(ParentKind(t, Parent(WrapperTop(t, p))))
       /\ WrapperTop(t, p)[Len(WrapperTop(t, p))] = 2

\* C4: a return-value call that is only a sub-expression of an initializer or
\* of the right-hand side of an assignment, and not inside an argument of a
\* handler or logger, is used_other.
C4_SubExpressionNotTracked ==
    \A e \in RowsFor("kReturnValue") :
        (/\ InInitializer(ast, e[1])
         /\ ~IsWholeInitializer(ast, e[1])
         /\ ~InArgumentOf(ast, e[1], handler_functions \cup logger_functions))
        => CategoryOf(e) = "used_other"

(***************************************************************************)
(* Casts to void, handlers and loggers.                                    *)
(***************************************************************************)
\* C5: a return-value call with an explicit cast to void above it through
\* wrappers only is cast_to_void; a call that is under a cast to void through
\* some other expression is not.
C5_CastToVoidThroughWrappersOnly ==
    \A e \in RowsFor("kReturnValue") :
        /\ VoidCastThroughWrappers(ast, e[1]) => CategoryOf(e) = "cast_to_void"
        /\ VoidCastThroughOther(ast, e[1]) => CategoryOf(e) # "cast_to_void"

\* C6: a return-value call anywhere inside an argument of a call to a handler
\* is passed_to_handler_fn and, inside an argument of a call to a logger,
\* logged_not_handled.
C6_AnywhereInHandlerArgument ==
    \A e \in RowsFor("kReturnValue") :
        /\ InArgumentOf(ast, e[1], handler_functions)
              => CategoryOf(e) = "passed_to_handler_fn"
        /\ InArgumentOf(ast, e[1], logger_functions)
              => CategoryOf(e) = "logged_not_handled"

(***************************************************************************)
(* Branching.                                                              *)
(***************************************************************************)
\* C7: a return-value call in the condition of an if or switch, and not inside
\* an argument of a handler or logger, is branched_no_catchall or
\* branched_with_catchall wherever the if or switch stands.
C7_BranchedWhereverTheIfStands ==
    \A e \in RowsFor("kReturnValue") :
        (/\ ConditionsWith(ast, e[1]) # {}
         /\ ~InArgumentOf(ast, e[1], handler_functions \cup logger_functions))
        => CategoryOf(e) \in {"branched_no_catchall", "branched_with_catchall"}

\* The locals the model's programs keep the result or errno in.
ValueLocals == {"x", "y"}

AllBranches(t) ==
    {q \in SubtreePaths(t, <<>>) : KindAt(t, q) \in {"IfStmt", "SwitchStmt"}}

\* The condition of q reads one of the value locals.
ReadsValueLocal(t, q) ==
    \E r \in SubtreePaths(t, q \o <<1>>) :
        KindAt(t, r) = "DeclRefExpr" /\ NodeAt(t, r).n \in ValueLocals

\* The condition of q reads errno, as the variable or through its accessor.
ReadsErrno(t, q) ==
    \E r \in SubtreePaths(t, q \o <<1>>) :
        \/ KindAt(t, r) = "DeclRefExpr" /\ NodeAt(t, r).n = "errno"
        \/ KindAt(t, r) = "CallExpr" /\ DirectCallee(t, r) = "__errno_location"

\* The children of compound blocks that contain p (p itself included).
StatementsAround(t, p) ==
    {q \in Ancestors(p) \cup {p} : q # <<>> /\ ParentKind(t, q) = "CompoundStmt"}

InCompound(t, p) == StatementsAround(t, p) # {}

\* The call statement: the child of the innermost compound block around p.
CallStatement(t, p) ==
    CHOOSE q \in StatementsAround(t, p) :
        \A r \in StatementsAround(t, p) : Len(r) <= Len(q)

IsLastInBlock(t, s) == s[Len(s)] = Len(NodeAt(t, Parent(s)).c)

FollowingStatement(t, s) == Parent(s) \o <<s[Len(s)] + 1>>

\* The branching constructs inside statement s that test errno.
ErrnoBranchesIn(t, s) ==
    {q \in AllBranches(t) : IsPrefix(s, q) /\ ReadsErrno(t, q)}

\* The branching constructs a branched category of the errno call p can stem
\* from: those of the call statement that test errno, else those of the
\* following statement, else those that test a local errno was stored in.
ErrnoBranchesOn(t, s) ==
    IF ErrnoBranchesIn(t, s) # {} THEN ErrnoBranchesIn(t, s)
    ELSE IF ~IsLastInBlock(t, s) /\ ErrnoBranchesIn(t, FollowingStatement(t, s)) # {}
    THEN ErrnoBranchesIn(t, FollowingStatement(t, s))
    ELSE {q \in AllBranches(t) : ReadsValueLocal(t, q)}

\* The branching constructs a branched category of the call p can stem from:
\* those with the call in their condition, else those that test a local the
\* value was stored in; for an errno call, those of ErrnoBranchesOn.
BranchesOn(t, p, reporting) ==
    IF reporting = "kErrno"
    THEN IF InCompound(t, p) THEN ErrnoBranchesOn(t, CallStatement(t, p)) ELSE {}
    ELSE IF ConditionsWith(t, p) # {} THEN ConditionsWith(t, p)
    ELSE {q \in AllBranches(t) : ReadsValueLocal(t, q)}

Branched(e, t, reporting) ==
    CategoryOf(e) \in {"branched_no_catchall", "branched_with_catchall"} =>
        /\ BranchesOn(t, e[1], reporting) # {}
        /\ \A q \in BranchesOn(t, e[1], reporting) :
              CategoryOf(e) = "branched_with_catchall" <=> HasCatchAll(t, q)

\* C8: a branched category is branched_with_catchall if and only if the if
\* it stems from ends, through every else-if, in an else that is not an if,
\* or the switch it stems from has a default label of its own.
C8_CatchAllIffElseOrDefault ==
    /\ \A e \in RowsFor("kReturnValue") : Branched(e, ast, "kReturnValue")
    /\ \A e \in RowsFor("kErrno") : Branched(e, ast, "kErrno")

\* A row is branched_no_catchall and stems from an if whose else is another
\* if that has no else of its own.
C8_Witness ==
    \E e \in RowsFor("kReturnValue") :
        /\ CategoryOf(e) = "branched_no_catchall"
        /\ \E q \in BranchesOn(ast, e[1], "kReturnValue") :
              /\ KindAt(ast, q) = "IfStmt"
              /\ Len(NodeAt(ast, q).c) = 3
              /\ KindAt(ast, q \o <<3>>) = "IfStmt"
              /\ ~HasCatchAll(ast, q)

(***************************************************************************)
(* Ignored and propagated calls.                                           *)
(***************************************************************************)
\* C9: a return-value call is ignored only if, through wrappers only, it
\* stands in statement position, and it is ignored whenever it does, unless
\* the whole expression is a cast to void or the call is an argument of a
\* handler or logger.
C9_IgnoredIffStatementPosition ==
    \A e \in RowsFor("kReturnValue") :
        /\ CategoryOf(e) = "ignored" =>
              InStatementPosition(ast, WrapperTop(ast, e[1]))
        /\ (/\ InStatementPosition(ast, WrapperTop(ast, e[1]))
            /\ ~IsVoidCast(ast, OutermostExpr(ast, e[1]))
            /\ ~InArgumentOf(ast, e[1], handler_functions \cup logger_functions))
           => CategoryOf(e) = "ignored"

\* A call under a wrapper has been recorded as ignored in the increment of a
\* for statement.
C9_Witness ==
    \E e \in RowsFor("kReturnValue") :
        /\ CategoryOf(e) = "ignored"
        /\ WrapperTop(ast, e[1]) # e[1]
        /\ ParentKind(ast, WrapperTop(ast, e[1])) = "ForStmt"
        /\ WrapperTop(ast, e[1])[Len(WrapperTop(ast, e[1]))] = 3

\* C10: a return-value call inside the value of a return statement is
\* propagated unless the whole expression is a cast to void or the innermost
\* call taking it as argument is a handler or logger; in the latter case it is
\* passed_to_handler_fn or logged_not_handled; it is never branched_* or
\* used_other.
C10_ReturnedIsPropagated ==
    \A e \in RowsFor("kReturnValue") :
        InReturnValue(ast, e[1]) =>
            /\ CategoryOf(e) \notin {"branched_no_catchall",
                                     "branched_with_catchall", "used_other"}
            /\ (/\ ~IsVoidCast(ast, OutermostExpr(ast, e[1]))
                /\ ~NearestCallIn(ast, e[1], handler_functions \cup logger_functions))
               => CategoryOf(e) = "propagated"
            /\ (/\ ~IsVoidCast(ast, OutermostExpr(ast, e[1]))
                /\ NearestCallIn(ast, e[1], handler_functions))
               => CategoryOf(e) = "passed_to_handler_fn"

\* A call deep in the value of a return statement (under an operator or as an
\* argument of a call that is no handler) has been recorded as propagated.
C10_Witness ==
    \E e \in RowsFor("kReturnValue") :
        /\ CategoryOf(e) = "propagated"
        /\ InReturnValue(ast, e[1])
        /\ ParentKind(ast, WrapperTop(ast, e[1])) # "ReturnStmt"

(***************************************************************************)
(* Errno reporting: the call statement and its successor.                  *)
(***************************************************************************)
\* q names errno: the identifier, or a call of one of its accessors.
NamesErrno(t, q) ==
    \/ KindAt(t, q) = "DeclRefExpr" /\ NodeAt(t, q).n = "errno"
    \/ KindAt(t, q) = "CallExpr"
       /\ DirectCallee(t, q) \in {"__errno_location", "__error"}

\* q is (part of) the left-hand side of an assignment to errno.
IsAssignedErrno(t, q) ==
    \E a \in Ancestors(q) :
        /\ KindAt(t, a) = "BinaryOperator"
        /\ NodeAt(t, a).n \in {"=", "+=", "-="}
        /\ q[Len(a) + 1] = 1
        /\ \E r \in SubtreePaths(t, a \o <<1>>) :
              /\ NamesErrno(t, r)
              /\ \A m \in Between(a, r) :
                    \/ KindAt(t, m) \in {"ParenExpr", "ImplicitCastExpr"}
                    \/ KindAt(t, m) = "UnaryOperator" /\ NodeAt(t, m).n = "*"

\* The reads of errno in the statement s.
ErrnoReads(t, s) ==
    {q \in SubtreePaths(t, s) : NamesErrno(t, q) /\ ~IsAssignedErrno(t, q)}

\* Neither the call statement of p nor its successor reads errno.
NoErrnoReadNear(t, s) ==
    /\ ErrnoReads(t, s) = {}
    /\ IsLastInBlock(t, s) \/ ErrnoReads(t, FollowingStatement(t, s)) = {}

SuccessorOf(t, s) ==
    IF IsLastInBlock(t, s) THEN NullPath ELSE FollowingStatement(t, s)

\* The category of the first rule, in the order of the errno rules, that
\* matches in the call statement s1 or in its successor s2; u1 and u2 are the
\* uses of errno in the two statements.
FirstErrnoRule(t, p, s1, s2, u1, u2) ==
    IF u1.handler \/ u2.handler THEN "passed_to_handler_fn"
    ELSE IF ContainsReturnOfErrno(t, s1) \/ ContainsReturnOfErrno(t, s2)
    THEN "propagated"
    ELSE IF BranchHandlingForErrnoCondition(t, s1) # "kNone"
    THEN HandlingTypeName(BranchHandlingForErrnoCondition(t, s1))
    ELSE IF BranchHandlingForErrnoCondition(t, s2) # "kNone"
    THEN HandlingTypeName(BranchHandlingForErrnoCondition(t, s2))
    ELSE IF \/ FindErrnoAssignmentInStatement(t, s1).ok
            \/ FindErrnoAssignmentInStatement(t, s2).ok
    THEN HandlingTypeName(TrackErrnoAssignment(t, p).type)
    ELSE IF u1.logger \/ u2.logger THEN "logged_not_handled"
    ELSE "used_other"

FirstErrnoRuleAround(t, p, s1, s2) ==
    FirstErrnoRule(t, p, s1, s2, AnalyzeErrnoUsage(t, s1), AnalyzeErrnoUsage(t, s2))

\* C12: an errno call that is not ignored has the category of the first rule,
\* in the order passed_to_handler_fn, propagated, branched, local-propagation
\* tracking, logged_not_handled, used_other, that matches in the call statement
\* or in the statement that follows it.
C12_FirstRuleOverBothStatements ==
    \A e \in RowsFor("kErrno") :
        CategoryOf(e) # "ignored" =>
            CategoryOf(e) =
                FirstErrnoRuleAround(ast, e[1], CallStatement(ast, e[1]),
                                     SuccessorOf(ast, CallStatement(ast, e[1])))

(***************************************************************************)
(* Errno reporting: locality.                                              *)
(***************************************************************************)
\* The statements that can follow the call statement of the program d.
AfterShapesOf(d) ==
    IF d.stmt = "global" THEN {"none"}
    ELSE IF d.stmt = "decl_errno" THEN CopyAfterShapes
    ELSE ErrnoAfterShapes

\* The programs that differ from d at most in what follows the call statement.
Variants(d) == {[d EXCEPT !.after = a] : a \in AfterShapesOf(d)}

\* The blocks around the statement s of t1 and of t2 agree on s and on the
\* statement that follows it.
AgreeNear(t1, t2, s) ==
    /\ NodeAt(t1, s) = NodeAt(t2, s)
    /\ IsLastInBlock(t1, s) <=> IsLastInBlock(t2, s)
    /\ ~IsLastInBlock(t1, s) =>
          NodeAt(t1, FollowingStatement(t1, s)) = NodeAt(t2, FollowingStatement(t2, s))

\* The category TraverseStmt records for the errno call p of the tree t.
ErrnoCategoryIn(t, p) == HandlingTypeName(Handling(t, p, "kErrno").type)

\* The outcome is left to the local-propagation tracker: the call statement s
\* or its successor copies errno into a local and neither yields a category.
LeftToTracker(t, s) ==
    /\ \/ FindErrnoAssignmentInStatement(t, s).ok
       \/ FindErrnoAssignmentInStatement(t, SuccessorOf(t, s)).ok
    /\ AnalyzeErrnoStatement(t, s, FALSE).type = "kNone"
    /\ AnalyzeErrnoStatement(t, SuccessorOf(t, s), FALSE).type = "kNone"

SameCategoryNear(e, t, s) ==
    \A d \in Variants(prog) :
        AgreeNear(t, Build(d), s) => ErrnoCategoryIn(Build(d), e[1]) = CategoryOf(e)

\* C13 (as stated): two blocks that agree on the call statement of an errno
\* call and on the statement that follows it give the call the same category,
\* whatever their later statements are.
C13_DependsOnTwoStatementsOnly ==
    \A e \in RowsFor("kErrno") :
        InCompound(ast, e[1]) => SameCategoryNear(e, ast, CallStatement(ast, e[1]))

\* C13 (amended): two blocks that agree on the call statement of an errno call
\* and on the statement that follows it give the call the same category,
\* unless one of the two statements copies errno into a local and neither
\* yields a category by itself (the outcome is then the tracker's, which reads
\* the later statements of the block).
C13_DependsOnTwoStatementsUnlessTracked ==
    \A e \in RowsFor("kErrno") :
        (/\ InCompound(ast, e[1])
         /\ ~LeftToTracker(ast, CallStatement(ast, e[1])))
        => SameCategoryNear(e, ast, CallStatement(ast, e[1]))

\* An errno call that is not ignored and not left to the tracker has been
\* recorded, and another block agrees with its block on the two statements
\* and differs later.
C13_Witness ==
    \E e \in RowsFor("kErrno") :
        /\ CategoryOf(e) # "ignored"
        /\ InCompound(ast, e[1])
        /\ ~LeftToTracker(ast, CallStatement(ast, e[1]))
        /\ \E d \in Variants(prog) :
              /\ Build(d) # ast
              /\ AgreeNear(ast, Build(d), CallStatement(ast, e[1]))

(***************************************************************************)
(* Errno reporting: a local copy of errno.                                 *)
(***************************************************************************)
\* The statement, s or its successor, that copies errno into a local.
CopyStatement(t, s) ==
    IF FindErrnoAssignmentInStatement(t, s).ok THEN s ELSE SuccessorOf(t, s)

\* The statements that follow a in its block.
LaterStatements(t, a) ==
    {Parent(a) \o <<i>> : i \in (a[Len(a)] + 1)..Len(NodeAt(t, Parent(a)).c)}

\* n passes the local var to a handler.
IsHandlerStatement(t, n, var) ==
    /\ KindAt(t, n) = "CallExpr"
    /\ DirectCallee(t, n) \in handler_functions
    /\ ContainsVarReference(t, n, var)

\* n is an if or switch whose condition reads the local var.
BranchesOnLocal(t, n, var) ==
    /\ KindAt(t, n) \in {"IfStmt", "SwitchStmt"}
    /\ ContainsVarReference(t, n \o <<1>>, var)

\* The row e has the tracker's outcome for the copy c of errno made in the
\* statement a, and the expected one in the four named cases; n is the
\* statement after a.
TrackedFrom(e, t, a, n, c) ==
    /\ CategoryOf(e) =
          HandlingTypeName(TrackAssignedValue(t, a, c.var, c.loc, FALSE).type)
    /\ (\A q \in LaterStatements(t, a) : ~ContainsVarReference(t, q, c.var))
          => CategoryOf(e) = "assigned_not_read"
    /\ (n # NullPath /\ IsHandlerStatement(t, n, c.var))
          => CategoryOf(e) = "passed_to_handler_fn"
    /\ (n # NullPath /\ BranchesOnLocal(t, n, c.var)
                     /\ ContainsReturnOfVar(t, n, c.var))
          => CategoryOf(e) = "propagated"
    /\ (n # NullPath /\ BranchesOnLocal(t, n, c.var)
                     /\ ~ContainsReturnOfVar(t, n, c.var))
          => CategoryOf(e) =
                IF HasCatchAll(t, n) THEN "branched_with_catchall"
                ELSE "branched_no_catchall"

TrackedFromCopy(e, t, a) ==
    TrackedFrom(e, t, a, SuccessorOf(t, a), FindErrnoAssignmentInStatement(t, a))

\* C14: when the call statement of an errno call or its successor copies errno
\* into a local and neither statement yields a category by itself, the
\* category is the outcome of the local-propagation tracker started at the
\* copying statement: propagated for a later `if (err) return err;`,
\* passed_to_handler_fn for a later `handle(err)`, branched_* for a later if
\* or switch on the local, assigned_not_read when the local is not read.
C14_ErrnoCopyIsTracked ==
    \A e \in RowsFor("kErrno") :
        (/\ InCompound(ast, e[1])
         /\ LeftToTracker(ast, CallStatement(ast, e[1])))
        => TrackedFromCopy(e, ast, CopyStatement(ast, CallStatement(ast, e[1])))

\* The statement after an errno call copied errno into a local, the next one
\* returned the local inside an if, and the call has been recorded as
\* propagated.
C14_Witness ==
    \E e \in RowsFor("kErrno") :
        /\ CategoryOf(e) = "propagated"
        /\ InCompound(ast, e[1])
        /\ LeftToTracker(ast, CallStatement(ast, e[1]))
        /\ CopyStatement(ast, CallStatement(ast, e[1])) # CallStatement(ast, e[1])
        /\ KindAt(ast, SuccessorOf(ast, CopyStatement(ast, CallStatement(ast, e[1]))))
              = "IfStmt"

(***************************************************************************)
(* Errno reporting: loggers.                                               *)
(***************************************************************************)
\* errno is passed to a logger in s1 or s2, and no handler, return, branch,
\* local copy or other use of errno applies in the two statements; u1 and u2
\* are the uses of errno in them.
OnlyLogged(t, s1, s2, u1, u2) ==
    /\ u1.logger \/ u2.logger
    /\ ~(u1.handler \/ u2.handler)
    /\ ~(u1.other \/ u2.other)
    /\ ~ContainsReturnOfErrno(t, s1) /\ ~ContainsReturnOfErrno(t, s2)
    /\ BranchHandlingForErrnoCondition(t, s1) = "kNone"
    /\ BranchHandlingForErrnoCondition(t, s2) = "kNone"
    /\ ~FindErrnoAssignmentInStatement(t, s1).ok
    /\ ~FindErrnoAssignmentInStatement(t, s2).ok

OnlyLoggedNear(t, s) ==
    OnlyLogged(t, s, SuccessorOf(t, s), AnalyzeErrnoUsage(t, s),
               AnalyzeErrnoUsage(t, SuccessorOf(t, s)))

\* The tracker, started at the copy of errno in a, ends in logged_not_handled.
CopyOnlyLogged(t, a) ==
    TrackAssignedValue(t, a, FindErrnoAssignmentInStatement(t, a).var,
                       FindErrnoAssignmentInStatement(t, a).loc, FALSE).type
        = "kLoggedNotHandled"

\* An if or switch among the two statements reads errno in its condition.
BranchesOnErrnoNear(t, s) ==
    \/ KindAt(t, s) \in {"IfStmt", "SwitchStmt"} /\ ErrnoReads(t, s \o <<1>>) # {}
    \/ /\ ~IsLastInBlock(t, s)
       /\ KindAt(t, FollowingStatement(t, s)) \in {"IfStmt", "SwitchStmt"}
       /\ ErrnoReads(t, FollowingStatement(t, s) \o <<1>>) # {}

FirstUseIsVoidCast(t, a, var) ==
    \E q \in LaterStatements(t, a) :
        /\ IsVoidCast(t, q)
        /\ ContainsVarReference(t, q, var)
        /\ \A r \in LaterStatements(t, a) :
              r[Len(r)] < q[Len(q)] => ~ContainsVarReference(t, r, var)

\* The call p is, under wrappers only, the initializer of a local declared in
\* a statement of a block.
InitializesLocal(t, p) ==
    /\ ParentKind(t, WrapperTop(t, p)) = "VarDecl"
    /\ NodeAt(t, Parent(WrapperTop(t, p))).n \in LocalVarNames
    /\ Len(WrapperTop(t, p)) >= 2
    /\ KindAt(t, Parent(Parent(WrapperTop(t, p)))) = "DeclStmt"
    /\ ParentKind(t, Parent(Parent(WrapperTop(t, p)))) = "CompoundStmt"

\* A statement `(void)errno;` follows the errno call statement s, which does
\* not read errno itself.
VoidCastOfErrnoFollows(t, s) ==
    /\ ErrnoReads(t, s) = {}
    /\ ~IsLastInBlock(t, s)
    /\ IsVoidCast(t, FollowingStatement(t, s))
    /\ ErrnoReads(t, FollowingStatement(t, s)) # {}

VoidCastOfErrnoCopy(t, s) ==
    /\ LeftToTracker(t, s)
    /\ FirstUseIsVoidCast(t, CopyStatement(t, s),
                          FindErrnoAssignmentInStatement(t, CopyStatement(t, s)).var)

\* C16: no errno call is cast_to_void; an explicit cast to void of a local
\* copy of errno, and `(void)errno;` itself, give used_other, whereas the
\* explicit cast to void of the local a return-value call initializes gives
\* cast_to_void.
C16_ErrnoNeverCastToVoid ==
    /\ \A e \in RowsFor("kErrno") :
          /\ CategoryOf(e) # "cast_to_void"
          /\ (/\ InCompound(ast, e[1])
              /\ \/ VoidCastOfErrnoCopy(ast, CallStatement(ast, e[1]))
                 \/ VoidCastOfErrnoFollows(ast, CallStatement(ast, e[1])))
             => CategoryOf(e) = "used_other"
    /\ \A e \in RowsFor("kReturnValue") :
          (/\ InitializesLocal(ast, e[1])
           /\ FirstUseIsVoidCast(ast, Parent(Parent(WrapperTop(ast, e[1]))),
                                 NodeAt(ast, Parent(WrapperTop(ast, e[1]))).n))
          => CategoryOf(e) = "cast_to_void"

\* errno was copied into a local after an errno call, the local was cast to
\* void, and the call has been recorded as used_other.
C16_Witness ==
    \E e \in RowsFor("kErrno") :
        /\ CategoryOf(e) = "used_other"
        /\ InCompound(ast, e[1])
        /\ VoidCastOfErrnoCopy(ast, CallStatement(ast, e[1]))

(***************************************************************************)
(* assigned_not_read.                                                      *)
(***************************************************************************)
\* The reference r is exactly the value copied into a local: under wrappers
\* only it is the initializer of a local or the right-hand side of an
\* assignment statement to a local.
IsCopiedValue(t, r) ==
    \/ ParentKind(t, WrapperTop(t, r)) = "VarDecl"
    \/ /\ ParentKind(t, WrapperTop(t, r)) = "BinaryOperator"
       /\ NodeAt(t, Parent(WrapperTop(t, r))).n = "="
       /\ WrapperTop(t, r)[Len(WrapperTop(t, r))] = 2
       /\ AsLocalVar(t, Parent(WrapperTop(t, r)) \o <<1>>) # ""

\* The local the copy r of a value goes into.
CopyTarget(t, r) ==
    IF ParentKind(t, WrapperTop(t, r)) = "VarDecl"
    THEN NodeAt(t, Parent(WrapperTop(t, r))).n
    ELSE AsLocalVar(t, Parent(WrapperTop(t, r)) \o <<1>>)

\* The references to the local h in the statements after a.
LaterReferences(t, a, h) ==
    {r \in UNION {SubtreePaths(t, q) : q \in LaterStatements(t, a)} :
        KindAt(t, r) = "DeclRefExpr" /\ NodeAt(t, r).n = h}

\* The locals the value held by the locals H is copied into after a.
CopiedInto(t, a, H) ==
    {CopyTarget(t, r) : r \in {c \in UNION {LaterReferences(t, a, h) : h \in H} :
                                  IsCopiedValue(t, c)}}

\* The locals that hold the value assigned to var in the statement a.
Holders(t, a, var) ==
    {var} \cup CopiedInto(t, a, {var})
          \cup CopiedInto(t, a, {var} \cup CopiedInto(t, a, {var}))

\* A reference that is the target of an assignment.
IsAssignmentTarget(t, r) ==
    /\ ParentKind(t, WrapperTop(t, r)) = "BinaryOperator"
    /\ NodeAt(t, Parent(WrapperTop(t, r))).n = "="
    /\ WrapperTop(t, r)[Len(WrapperTop(t, r))] = 1

\* After the statement a no local that holds the value is read outside an
\* assignment.
NeverReadAfter(t, a, H) ==
    \A h \in H : \A r \in LaterReferences(t, a, h) :
        IsCopiedValue(t, r) \/ IsAssignmentTarget(t, r)

NeverRead(t, a, var) == NeverReadAfter(t, a, Holders(t, a, var))

\* C17: a call is assigned_not_read only if, in the statements that follow the
\* assignment in its block, the value is never read outside an assignment
\* through any local that held it, the originally assigned local included.
C17_AssignedNotReadMeansNeverRead ==
    /\ \A e \in RowsFor("kReturnValue") :
          CategoryOf(e) = "assigned_not_read" =>
              NeverRead(ast, FindReturnValueAssignment(ast, e[1]).stmt,
                        FindReturnValueAssignment(ast, e[1]).var)
    /\ \A e \in RowsFor("kErrno") :
          CategoryOf(e) = "assigned_not_read" =>
              NeverRead(ast, CopyStatement(ast, CallStatement(ast, e[1])),
                        FindErrnoAssignmentInStatement(
                            ast, CopyStatement(ast, CallStatement(ast, e[1]))).var)

(***************************************************************************)
(* The sink and the exit code.                                             *)
(***************************************************************************)
\* C18: once an insert has failed, no step changes the rows of watched_calls
\* or the stored error message, the run ends only after the walker has visited
\* the remaining call expressions of every unit, and it ends with a non-zero
\* exit code whatever the frontend returned.
C18_SinkErrorIsLatched ==
    [][error_message # "" =>
          /\ rows' = rows
          /\ error_message' = error_message
          /\ pc' = "done" => (exit_code' # 0 /\ tu = units /\ UnitDone)]_vars

\* The first insert of the run failed, a second unit was traversed after it,
\* the frontend reported success and the run ended with a non-zero exit code.
C18_Witness ==
    /\ pc = "done"
    /\ error_message # ""
    /\ tu = 2
    /\ pos >= 1
    /\ \E p \in VisitedCalls : IsWatchedCall(ast, p)
    /\ rows = <<>>
    /\ result = 0
    /\ exit_code = 1

\* C19: opening the database at an existing path without
\* --overwrite-if-needed ends the run with a non-zero exit code before any
\* unit is analysed and leaves the path as it was; with the flag an existing
\* file is removed and created again, empty; an existing directory is an
\* error with or without the flag.
C19_ExistingDatabaseNeedsOverwrite ==
    [][(pc = "loaded" /\ pc' # pc) =>
          /\ (fs # "absent" /\ ~overwrite) =>
                /\ pc' = "done"
                /\ exit_code' # 0
                /\ tu' = 0
                /\ ast' = Absent
                /\ fs' = fs
                /\ rows' = rows
          /\ fs = "dir" => (pc' = "done" /\ exit_code' # 0 /\ fs' = "dir")
          /\ (fs = "file" /\ overwrite) =>
                (pc' = "opened" /\ fs' = "file" /\ rows' = <<>>)]_vars

\* The registry was loaded, the path held a database file, the flag was not
\* given: the run ended with exit code 1 and the old rows are still there.
C19_Witness ==
    /\ pc = "done"
    /\ cfg = "std"
    /\ fs = "file"
    /\ ~overwrite
    /\ rows = StaleRows
    /\ tu = 0
    /\ exit_code = 1

(***************************************************************************)
(* The notable-functions file.                                             *)
(***************************************************************************)
\* Element e of the array is an object with a non-empty string name and one
\* of the two shapes.
IsShaped(e) ==
    /\ "name" \in DOMAIN e
    /\ e.name \notin {Missing, NotAString, ""}
    /\ \/ e.reporting \in {"return_value", "errno"} /\ e.type = Missing
       \/ e.type \in {"handler", "logger"} /\ e.reporting = Missing

NoNameTwice(array) ==
    \A i, j \in 1..Len(array) : i # j => array[i].name # array[j].name

\* C20: when the notable-functions file was loaded, every element of its
\* array is an object with a non-empty string name and exactly one shape
\* (reporting return_value or errno and no type field, or type handler or
\* logger and no reporting field), no name occurs twice, and the watched,
\* handler and logger names are pairwise disjoint.
C20_LoadedOnlyIfWellFormed ==
    pc \in {"loaded", "opened"} =>
       /\ cfg # "unreadable"
       /\ \A i \in 1..Len(ConfigContents(cfg)) : IsShaped(ConfigContents(cfg)[i])
       /\ NoNameTwice(ConfigContents(cfg))
       /\ NotableNames(notable_functions) \cap handler_functions = {}
       /\ NotableNames(notable_functions) \cap logger_functions = {}
       /\ handler_functions \cap logger_functions = {}

\* The files with one of the configuration errors: unreadable, invalid JSON,
\* a missing field, an unknown value, a duplicate name.
ConfigurationErrors ==
    {"unreadable", "invalid_json", "not_array", "not_object", "empty_name",
     "no_shape", "bad_type", "bad_reporting", "duplicate", "twice",
     "type_and_reporting"}

\* C21: with a configuration error the only step of the run is the one that
\* ends it with a non-zero exit code: no unit is analysed, the sink is not
\* opened, no row is written and an existing database file is left as it
\* was, with or without --overwrite-if-needed.
C21_ConfigurationErrorIsFatalFirst ==
    [][(cfg \in ConfigurationErrors) =>
          /\ pc' = "done"
          /\ exit_code' # 0
          /\ tu' = 0
          /\ ast' = Absent
          /\ error_message' = ""
          /\ fs' = fs
          /\ rows' = rows]_vars

\* A file with a duplicate name, an existing database and the flag given: the
\* run has ended with exit code 1 and the old rows are still in the file.
C21_Witness ==
    /\ cfg = "duplicate"
    /\ pc = "done"
    /\ exit_code = 1
    /\ overwrite
    /\ fs = "file"
    /\ rows = StaleRows
    /\ tu = 0

(***************************************************************************)
(* Repeated runs.                                                          *)
(***************************************************************************)
\* The rows a traversal of unit number unit gives for the call expressions
\* calls, in visit order.
RECURSIVE RowsOfCalls(_, _, _)
RowsOfCalls(t, unit, calls) ==
    IF calls = <<>> THEN <<>>
    ELSE (IF IsWatchedCall(t, Head(calls))
          THEN <<WatchedRow(t, unit, Head(calls))>> ELSE <<>>)
         \o RowsOfCalls(t, unit, Tail(calls))

\* The rows of one run over units 1..n on a fresh path.
RECURSIVE RowsOfUnits(_, _)
RowsOfUnits(t, n) ==
    IF n = 0 THEN <<>>
    ELSE RowsOfUnits(t, n - 1) \o RowsOfCalls(t, n, CallExprs(t))

\* C22: after a second successful run on the same inputs and path with
\* --overwrite-if-needed, watched_calls holds, in id order, exactly the rows
\* of a single run: no row of the first run is left or doubled.
C22_RerunGivesTheRowsOfOneRun ==
    (runs >= 2 /\ pc = "done" /\ exit_code = 0) =>
        rows = RowsOfUnits(ast, units)

\* Two successful runs have ended; the first left its rows in the file the
\* second one opened.
C22_Witness ==
    /\ runs = 2
    /\ pc = "done"
    /\ exit_code = 0
    /\ Len(rows) >= 2
    /\ rows = RowsOfUnits(ast, units)

(***************************************************************************)
(* The assignment site of a row.                                           *)
(***************************************************************************)
\* C23: a row whose assignment-site columns are not null has handling_type
\* assigned_not_read; rows of every other category, from a direct rule or
\* from the tracker after retargets, have them null.
C23_AssignmentSiteOnlyWhenNotRead ==
    \A i \in 1..Len(rows) :
        rows[i].assigned # <<>> => rows[i].handling_type = "assigned_not_read"

\* The tracker retargeted to a copy and ended in another category: the row
\* has no assignment site.
C23_Witness ==
    /\ prog.after \in {"copy_if_return", "copy_handle", "copy_log"}
    /\ \E i \in 1..Len(rows) :
          /\ rows[i].handling_type \in
                {"propagated", "passed_to_handler_fn", "logged_not_handled"}
          /\ rows[i].assigned = <<>>

(***************************************************************************)
(* Trivial wrappers (src/README.md:62-73).                                 *)
(***************************************************************************)
\* The body at path b returns a call of w directly.
ReturnsCallOf(t, b, w) ==
    /\ Len(NodeAt(t, b).c) = 1
    /\ KindAt(t, b \o <<1>>) = "ReturnStmt"
    /\ KindAt(t, IgnoreParenImpCasts(t, b \o <<1, 1>>)) = "CallExpr"
    /\ CalleeDecl(t, IgnoreParenImpCasts(t, b \o <<1, 1>>)) = w

\* The body at path b stores a call of w in a local and returns that local.
ReturnsStoredCallOf(t, b, w) ==
    /\ Len(NodeAt(t, b).c) = 2
    /\ KindAt(t, b \o <<1>>) = "DeclStmt"
    /\ KindAt(t, IgnoreParenImpCasts(t, b \o <<1, 1, 1>>)) = "CallExpr"
    /\ CalleeDecl(t, IgnoreParenImpCasts(t, b \o <<1, 1, 1>>)) = w
    /\ KindAt(t, b \o <<2>>) = "ReturnStmt"
    /\ KindAt(t, IgnoreParenImpCasts(t, b \o <<2, 1>>)) = "DeclRefExpr"
    /\ NodeAt(t, IgnoreParenImpCasts(t, b \o <<2, 1>>)).n = NodeAt(t, b \o <<1, 1>>).n

\* f is defined in t as a one-layer trivial wrapper of the watched function w.
IsTrivialWrapper(t, f, w) ==
    /\ ReportingOf(w) # ""
    /\ \E q \in SubtreePaths(t, <<>>) :
          /\ KindAt(t, q) = "FunctionDecl"
          /\ NodeAt(t, q).n = f
          /\ ReturnsCallOf(t, q \o <<1>>, w) \/ ReturnsStoredCallOf(t, q \o <<1>>, w)

\* C24: a visited call of a one-layer trivial wrapper of a watched function
\* has a row at its own location that carries the watched function's name.
C24_WrapperCallsAreAttributed ==
    error_message = "" =>
        \A c \in VisitedCalls : \A w \in FunctionNames :
            IsTrivialWrapper(ast, CalleeDecl(ast, c), w) =>
                \E i \in 1..Len(rows) :
                    /\ rows[i].name = w
                    /\ rows[i].filename = FileOf(tu)
                    /\ rows[i].line = PresumedLoc(tu, c).line
                    /\ rows[i].column = PresumedLoc(tu, c).column

(***************************************************************************)
(* The walk of the tracker over the statements after the start.            *)
(***************************************************************************)
\* The local the tracker follows when it examines statement i of the block:
\* var at the statement after the start, then the target of the latest copy.
RECURSIVE FollowedAt(_, _, _, _, _, _)
FollowedAt(t, block, start, var, allow, i) ==
    IF i <= start + 1 THEN var
    ELSE IF AnalyzeStatementForVar(t, block \o <<i - 1>>,
                                   FollowedAt(t, block, start, var, allow, i - 1),
                                   allow).use = "kPropagatedValue"
    THEN AnalyzeStatementForVar(t, block \o <<i - 1>>,
                                FollowedAt(t, block, start, var, allow, i - 1),
                                allow).var
    ELSE FollowedAt(t, block, start, var, allow, i - 1)

\* The statement use of statement i of the block for the local followed there.
WalkUse(t, block, start, var, allow, i) ==
    AnalyzeStatementForVar(t, block \o <<i>>,
                           FollowedAt(t, block, start, var, allow, i), allow).use

StrongUses == {"kPassedToHandlerFn", "kReturned", "kBranchedNoCatchall",
               "kBranchedWithCatchall", "kCastToVoid", "kUsedOther"}

\* The statements after the start at which the walk stops: a strong use or a
\* kill.
WalkStops(t, block, start, var, allow) ==
    {i \in (start + 1)..Len(NodeAt(t, block).c) :
        WalkUse(t, block, start, var, allow, i) \in StrongUses \cup {"kKilled"}}

Least(S) == CHOOSE i \in S : \A j \in S : i <= j

\* The statements the walk examines: up to its first stop, or to the end.
WalkExamined(t, block, start, var, allow) ==
    IF WalkStops(t, block, start, var, allow) = {}
    THEN (start + 1)..Len(NodeAt(t, block).c)
    ELSE (start + 1)..Least(WalkStops(t, block, start, var, allow))

\* The category the walk is said to give.
WalkCategory(t, block, start, var, allow) ==
    LET stops == WalkStops(t, block, start, var, allow)
        use == WalkUse(t, block, start, var, allow, Least(stops))
    IN IF stops # {} /\ use \in StrongUses
       THEN (IF use = "kReturned" THEN "kPropagated" ELSE use)
       ELSE IF \E j \in WalkExamined(t, block, start, var, allow) :
                  WalkUse(t, block, start, var, allow, j) = "kLogged"
       THEN "kLoggedNotHandled"
       ELSE "kAssignedNotRead"

\* The tracker, started at statement s for var, gives the said category.
WalkAgrees(t, s, var, loc, allow) ==
    TrackAssignedValue(t, s, var, loc, allow).type =
        WalkCategory(t, Parent(s), s[Len(s)], var, allow)

\* The starts of the tracker for the call c: the statement that stores the
\* call's value, or the statement that copies errno, with the local and the
\* flag allow_cast_to_void.
TrackerStarts(t, c) ==
    {<<FindReturnValueAssignment(t, c).stmt, FindReturnValueAssignment(t, c).var,
       TRUE>> : x \in {1}}
    \cup
    {<<s, FindErrnoAssignmentInStatement(t, s).var, FALSE>> :
        s \in {q \in SubtreePaths(t, <<>>) :
                  FindErrnoAssignmentInStatement(t, q).ok}}

StartedIn(t, c) ==
    {st \in TrackerStarts(t, c) :
        /\ st[1] # NullPath
        /\ st[2] # ""
        /\ ParentKind(t, st[1]) = "CompoundStmt"}

\* C25: the result of the tracker is the category of the first statement
\* after the start whose use is handler, returned, branched, cast to void or
\* other, with logger uses and unrelated statements skipped and copies
\* followed; when the walk ends at a kill or at the end of the block it is
\* logged_not_handled if a statement of the walk was a logger use and
\* assigned_not_read otherwise.
C25_TrackerResultIsFirstStrongUse ==
    \A c \in VisitedCalls : \A st \in StartedIn(ast, c) :
        WalkAgrees(ast, st[1], st[2], c, st[3])

\* A walk that met a logger use and then a branch or a cast to void, and a
\* row that is branched or cast_to_void.
C25_Witness ==
    /\ prog.after \in {"log_if", "log_void"}
    /\ \E c \in VisitedCalls : \E st \in StartedIn(ast, c) :
          /\ WalkUse(ast, Parent(st[1]), st[1][Len(st[1])], st[2], st[3],
                     st[1][Len(st[1])] + 1) = "kLogged"
          /\ WalkCategory(ast, Parent(st[1]), st[1][Len(st[1])], st[2], st[3])
                \in {"kBranchedNoCatchall", "kCastToVoid"}
    /\ \E i \in 1..Len(rows) :
          rows[i].handling_type \in {"branched_no_catchall", "cast_to_void"}

(***************************************************************************)
(* The order of the uses within one statement of the walk.                 *)
(***************************************************************************)
\* Some reference to var stands below q.
RefersTo(t, q, var) ==
    \E r \in SubtreePaths(t, q) :
        KindAt(t, r) = "DeclRefExpr" /\ NodeAt(t, r).n = var

\* Statement s holds, at any depth, a return whose value refers to var.
ReturnsLocal(t, s, var) ==
    \E r \in SubtreePaths(t, s) :
        /\ KindAt(t, r) = "ReturnStmt"
        /\ Len(NodeAt(t, r).c) >= 1
        /\ RefersTo(t, r \o <<1>>, var)

\* Statement s is an if or a switch whose condition refers to var.
ConditionHas(t, s, var) ==
    KindAt(t, s) \in {"IfStmt", "SwitchStmt"} /\ RefersTo(t, s \o <<1>>, var)

\* The order holds of the statement s examined for var, with statement use u.
UsesInOrder(t, s, var, u) ==
    /\ AnalyzeVarUsage(t, s, var).handler => u = "kPassedToHandlerFn"
    /\ (~AnalyzeVarUsage(t, s, var).handler /\ ReturnsLocal(t, s, var)) =>
          u = "kReturned"
    /\ (/\ ~AnalyzeVarUsage(t, s, var).handler
        /\ ~ReturnsLocal(t, s, var)
        /\ ConditionHas(t, s, var)) =>
          u \in {"kBranchedNoCatchall", "kBranchedWithCatchall"}
    /\ (/\ ~AnalyzeVarUsage(t, s, var).handler
        /\ ~ReturnsLocal(t, s, var)
        /\ ~ConditionHas(t, s, var)) =>
          /\ u \in {"kPropagatedValue", "kKilled", "kCastToVoid", "kUsedOther",
                    "kLogged", "kNone"}
          /\ u = "kLogged" => ~AnalyzeVarUsage(t, s, var).other

\* The statements the walks of the tracker examine for the call c, each with
\* the local followed there and the flag.
ExaminedFor(t, c) ==
    UNION {{<<Parent(st[1]) \o <<i>>,
              FollowedAt(t, Parent(st[1]), st[1][Len(st[1])], st[2], st[3], i),
              st[3]>> :
               i \in WalkExamined(t, Parent(st[1]), st[1][Len(st[1])], st[2], st[3])} :
           st \in StartedIn(t, c)}

\* C26: in a statement the tracker examines, a handler use of the local gives
\* passed_to_handler_fn; else a return that contains the local anywhere in the
\* statement gives propagated; else an if or switch on the local gives a
\* branched category; only then come copy, kill, cast to void, other use and
\* logger use, and a logger use counts only when no other use is present.
C26_UsesResolvedInFixedOrder ==
    \A c \in VisitedCalls : \A e \in ExaminedFor(ast, c) :
        UsesInOrder(ast, e[1], e[2], AnalyzeStatementForVar(ast, e[1], e[2], e[3]).use)

(***************************************************************************)
(* The assignment site and the copies the tracker follows.                 *)
(***************************************************************************)
\* The statements of the walk that copy the followed local.
WalkCopies(t, block, start, var, allow) ==
    {i \in WalkExamined(t, block, start, var, allow) :
        WalkUse(t, block, start, var, allow, i) = "kPropagatedValue"}

Greatest(S) == CHOOSE i \in S : \A j \in S : j <= i

\* The references to var in statement s.
ReferencesIn(t, s, var) ==
    {q \in SubtreePaths(t, s) :
        KindAt(t, q) = "DeclRefExpr" /\ NodeAt(t, q).n = var}

\* The outermost errno expressions of statement s.
ErrnoSites(t, s) ==
    {q \in SubtreePaths(t, s) :
        /\ q = IgnoreParenImpCasts(t, q)
        /\ IsErrnoExpr(t, q)
        /\ KindAt(t, Parent(q)) # "UnaryOperator"}

\* The value-bearing expressions the site of the walk can be: without a copy
\* the call (or the errno expression of the start), else the reference to the
\* local followed so far in the latest copy.
SitesOf(t, c, st) ==
    IF WalkCopies(t, Parent(st[1]), st[1][Len(st[1])], st[2], st[3]) = {}
    THEN (IF st[3] THEN {c} ELSE ErrnoSites(t, st[1]))
    ELSE ReferencesIn(t,
            Parent(st[1]) \o
               <<Greatest(WalkCopies(t, Parent(st[1]), st[1][Len(st[1])], st[2], st[3]))>>,
            FollowedAt(t, Parent(st[1]), st[1][Len(st[1])], st[2], st[3],
                       Greatest(WalkCopies(t, Parent(st[1]), st[1][Len(st[1])],
                                           st[2], st[3]))))

Unwrapped(t, q) == IgnoreParenImpCasts(t, q)

IsReferenceTo(t, q, var) ==
    KindAt(t, Unwrapped(t, q)) = "DeclRefExpr" /\ NodeAt(t, Unwrapped(t, q)).n = var

\* The declarators of the declaration s whose initializer is exactly var.
CopyDeclarators(t, s, var) ==
    {i \in 1..Len(NodeAt(t, s).c) :
        /\ Len(NodeAt(t, s \o <<i>>).c) >= 1
        /\ IsReferenceTo(t, s \o <<i, 1>>, var)}

\* The declarators of the declaration s whose initializer mentions var.
MentioningDeclarators(t, s, var) ==
    {i \in 1..Len(NodeAt(t, s).c) : RefersTo(t, s \o <<i>>, var)}

\* Statement s copies var, and nothing else, into another local.
PlainCopy(t, s, var) ==
    \/ /\ KindAt(t, s) = "DeclStmt"
       /\ Cardinality(CopyDeclarators(t, s, var)) = 1
       /\ MentioningDeclarators(t, s, var) = CopyDeclarators(t, s, var)
       /\ \A i \in CopyDeclarators(t, s, var) :
             hasLocalStorage(NodeAt(t, s \o <<i>>).n)
    \/ /\ KindAt(t, s) = "BinaryOperator"
       /\ NodeAt(t, s).n = "="
       /\ IsReferenceTo(t, s \o <<2>>, var)
       /\ KindAt(t, Unwrapped(t, s \o <<1>>)) = "DeclRefExpr"
       /\ hasLocalStorage(NodeAt(t, Unwrapped(t, s \o <<1>>)).n)
       /\ NodeAt(t, Unwrapped(t, s \o <<1>>)).n # var

\* Statement s assigns var to a variable that is not a local.
AssignsToNonLocal(t, s, var) ==
    /\ KindAt(t, s) = "BinaryOperator"
    /\ NodeAt(t, s).n = "="
    /\ IsReferenceTo(t, s \o <<2>>, var)
    /\ KindAt(t, Unwrapped(t, s \o <<1>>)) = "DeclRefExpr"
    /\ ~hasLocalStorage(NodeAt(t, Unwrapped(t, s \o <<1>>)).n)

RetargetsAsSaid(t, s, var, u) ==
    /\ u = "kPropagatedValue" <=> PlainCopy(t, s, var)
    /\ AssignsToNonLocal(t, s, var) => u = "kUsedOther"
    /\ (KindAt(t, s) = "DeclStmt" /\ Cardinality(CopyDeclarators(t, s, var)) >= 2)
          => u = "kUsedOther"

\* C27: a row that is assigned_not_read carries the location of the last
\* value-bearing expression of the chain: the call (or the errno expression)
\* without a copy, else the reference to the local followed so far in the
\* latest copy; the tracker retargets exactly at a statement that copies the
\* followed local, unwrapped, into another local, and an assignment of it to
\* a non-local or a declaration with two copies of it is an other use.
C27_SiteIsLastValueBearingExpression ==
    /\ \A e \in RowsFor("kReturnValue") \cup RowsFor("kErrno") :
          CategoryOf(e) = "assigned_not_read" =>
             \E st \in StartedIn(ast, e[1]) :
                \E q \in SitesOf(ast, e[1], st) :
                    rows[e[2]].assigned = ToAssignedLocation(tu, q)
    /\ \A c \in VisitedCalls : \A x \in ExaminedFor(ast, c) :
          RetargetsAsSaid(ast, x[1], x[2],
                          AnalyzeStatementForVar(ast, x[1], x[2], x[3]).use)

\* The value went through two copies and was never read: the row carries the
\* location of the first copy's target where the second copy reads it.
C27_Witness ==
    /\ prog.after = "copy_copy"
    /\ \E e \in RowsFor("kReturnValue") :
          /\ CategoryOf(e) = "assigned_not_read"
          /\ \E st \in StartedIn(ast, e[1]) :
                /\ Cardinality(WalkCopies(ast, Parent(st[1]), st[1][Len(st[1])],
                                          st[2], st[3])) = 2
                /\ \E q \in ReferencesIn(ast, Parent(st[1]) \o <<Len(ast.c)>>, "y") :
                      rows[e[2]].assigned = ToAssignedLocation(tu, q)

(***************************************************************************)
(* The tracker stays in its block.                                         *)
(***************************************************************************)
\* The block of statement s alone, as the body of a function, with s and the
\* statements before it replaced by empty statements.
Isolated(t, s) ==
    Compound([i \in 1..Len(NodeAt(t, Parent(s)).c) |->
                 IF i <= s[Len(s)] THEN NullStmt ELSE NodeAt(t, Parent(s) \o <<i>>)])

\* Started at s, the tracker gives a category, the one it gives in the
\* isolated block; with no statement after s it is one of the two end
\* categories.
StaysInBlock(t, s, var, loc, allow) ==
    /\ TrackAssignedValue(t, s, var, loc, allow).type # "kNone"
    /\ TrackAssignedValue(t, s, var, loc, allow).type =
          TrackAssignedValue(Isolated(t, s), <<s[Len(s)]>>, var, loc, allow).type
    /\ WalkStops(t, Parent(s), s[Len(s)], var, allow) = {} =>
          TrackAssignedValue(t, s, var, loc, allow).type
             \in {"kLoggedNotHandled", "kAssignedNotRead"}

\* C28: once started at a statement of a compound block, the tracker returns
\* a category, and that category is the one it returns when nothing but the
\* later statements of that block exists: statements before or at the start
\* and statements of enclosing blocks play no part; a walk that reaches the
\* end of the block gives logged_not_handled or assigned_not_read.
C28_TrackerStaysInItsBlock ==
    \A c \in VisitedCalls : \A st \in StartedIn(ast, c) :
        StaysInBlock(ast, st[1], st[2], c, st[3])

\* The value was stored inside a nested block and is tested after that
\* block: the row is assigned_not_read.
C28_Witness ==
    /\ prog.stmt = "block_errno"
    /\ prog.after = "if"
    /\ \E e \in RowsFor("kErrno") :
          /\ CategoryOf(e) = "assigned_not_read"
          /\ \E st \in StartedIn(ast, e[1]) : Len(st[1]) = 2

(***************************************************************************)
(* The walker emits a row before it descends.                              *)
(***************************************************************************)
\* The rows recorded at the place of the call expression p, whatever their
\* name.
RowsAtPlace(p) ==
    {i \in 1..Len(rows) : /\ rows[i].filename = FileOf(tu)
                          /\ rows[i].line = Head(p)
                          /\ rows[i].column = ColumnOf(Tail(p))}

\* The watched call c stands under the watched call o.
NestedWatched(o, c) ==
    /\ o # c
    /\ IsPrefix(o, c)
    /\ IsWatchedCall(ast, o)
    /\ IsWatchedCall(ast, c)

\* C29: a watched call nested in another watched call has its own row, the
\* outer call's row stands before the inner call's, and the outer row is
\* there while the inner call is still to be visited; a call whose callee is
\* not a declared function or is not registered as watched has no row.
C29_RowBeforeArguments ==
    /\ error_message = "" =>
          /\ \A o \in VisitedCalls : \A c \in VisitedCalls :
                NestedWatched(o, c) =>
                   /\ RowsAt(o) # {}
                   /\ RowsAt(c) # {}
                   /\ \A i \in RowsAt(o) : \A j \in RowsAt(c) : i < j
          /\ \A o \in VisitedCalls :
                \A c \in Range(CallExprs(ast)) \ VisitedCalls :
                   NestedWatched(o, c) => RowsAt(o) # {} /\ RowsAt(c) = {}
    /\ \A c \in VisitedCalls :
          (\/ CalleeDecl(ast, c) \notin FunctionNames
           \/ CalleeDecl(ast, c) \notin {e[1] : e \in notable_functions})
             => RowsAtPlace(c) = {}

\* malloc(malloc(1)) in a call to g: two rows, the outer call's first, and
\* none for g.
C29_Witness ==
    /\ prog.inner = "arg_malloc"
    /\ prog.outer = "none"
    /\ error_message = ""
    /\ Len(rows) = 2
    /\ \E o \in VisitedCalls : \E c \in VisitedCalls :
          /\ NestedWatched(o, c)
          /\ RowsAt(o) = {1}
          /\ RowsAt(c) = {2}

(***************************************************************************)
(* The context of a recorded reference.                                    *)
(***************************************************************************)
\* The nodes strictly above p that are in the statement s or are s.
Above(s, p) == {SubSeq(p, 1, n) : n \in Len(s)..(Len(p) - 1)}

\* The registered calls of s in whose argument list the node p stands.
RegisteredAround(t, s, p) ==
    {q \in Above(s, p) :
        /\ KindAt(t, q) = "CallExpr"
        /\ p[Len(q) + 1] >= 2
        /\ \/ IsCallInSet(t, q, handler_functions)
           \/ IsCallInSet(t, q, logger_functions)}

\* The context of p in s: that of the innermost registered call around it.
ContextOf(t, s, p) ==
    LET around == RegisteredAround(t, s, p)
    IN IF around = {} THEN "kOther"
       ELSE LET q == CHOOSE a \in around : \A b \in around : Len(b) <= Len(a)
            IN IF IsCallInSet(t, q, handler_functions) THEN "kHandler"
               ELSE "kLogger"

\* The left-hand side of an assignment to errno, which the errno visitor
\* does not enter.
UnderErrnoTarget(t, s, p) ==
    \E q \in Above(s, p) : /\ isAssignmentOp(NodeAt(t, q))
                           /\ IsErrnoExpr(t, q \o <<1>>)
                           /\ p[Len(q) + 1] = 1

IsAccessorCall(t, p) ==
    KindAt(t, p) = "CallExpr" /\ IsErrnoAccessorName(DirectCallee(t, p))

\* The nodes of s at which the visitor of the local var records a use.
RecordedForVar(t, s, var) ==
    {p \in SubtreePaths(t, s) :
        \/ KindAt(t, p) = "DeclRefExpr" /\ NodeAt(t, p).n = var
        \/ IsAccessorCall(t, p)}

\* The nodes of s at which the visitor of errno records a use.
RecordedForErrno(t, s) ==
    {p \in SubtreePaths(t, s) :
        /\ \/ KindAt(t, p) = "DeclRefExpr" /\ NodeAt(t, p).n = "errno"
           \/ IsAccessorCall(t, p)
        /\ ~UnderErrnoTarget(t, s, p)}

UsageOf(contexts) ==
    [handler |-> "kHandler" \in contexts,
     logger |-> "kLogger" \in contexts,
     other |-> "kOther" \in contexts]

\* The statements of the compound blocks of t, which the usage visitors are
\* run on.
BlockStatements(t) ==
    {s \in SubtreePaths(t, <<>>) : s # <<>> /\ ParentKind(t, s) = "CompoundStmt"}

====
